---------------------------- MODULE Spec2Model ----------------------------
(***************************************************************************)
(* A model of the scanner, the precedence-climbing parser and the          *)
(* tree-walking interpreter of the language, and of the driver `run` that  *)
(* parses one source text and interprets the result.                       *)
(*                                                                         *)
(* Five specifications share the module.  Spec is the driver: it parses    *)
(* `source` and interprets the tree.  ScanSpec is a scanner on its own,    *)
(* called token after token as the scanner's tests call it.  EnvSpec is an *)
(* Environment on its own under arbitrary calls of its public methods (the *)
(* interpreter does not use it).  TokSpec is a Parser under arbitrary      *)
(* calls of peek, advance, advance_if and expect.  CursorSpec is a Cursor  *)
(* under arbitrary calls of advance and lookahead.  Each specification     *)
(* leaves the variables of the others at their idle values.                *)
(*                                                                         *)
(* A source text is a sequence of characters, each a string: an ASCII      *)
(* character is itself, "NUL" is the character '\0' and "U+00E9" is the     *)
(* two-byte character e-acute.  Spans are byte offsets, as in the code.    *)
(* Optional values and results are records with a `kind` field; syntax     *)
(* trees and values are tagged tuples <<tag, ...>>.                        *)
(***************************************************************************)
EXTENDS Integers, Sequences, FiniteSets, TLC

VARIABLES
    source,     \* the source text
    globals,    \* Interpreter::globals
    pc,         \* where `run` is: "parse", "interpret", "done", "panicked"
    parsed,     \* what Parser::parse returned, with the parser it left
    trace,      \* the inserts into globals and the lines printed, in order
    scanner,    \* ScanSpec: the Scanner's cursor
    tokens,     \* ScanSpec: what the scan calls returned so far, in order
    env,        \* EnvSpec: the Environment
    returned,   \* EnvSpec: what the last Environment call returned
    saved,      \* EnvSpec: for every frame pushed and not yet popped, the
                \* Environment as it was at the push
    pushes,     \* EnvSpec: the calls of push so far
    pops,       \* EnvSpec: the calls of pop that returned so far
    parser,     \* TokSpec: the Parser, [scanner, peeked]
    consumed,   \* TokSpec: the tokens Parser::advance returned so far, in order
    result,     \* TokSpec: the last call made on the Parser and what it returned
    cursor,     \* CursorSpec: the Cursor
    got         \* CursorSpec: the last call made on the Cursor and the
                \* character it returned

runvars == <<source, globals, pc, parsed, trace>>

scanvars == <<scanner, tokens>>

envvars == <<env, returned, saved, pushes, pops>>

tokvars == <<parser, consumed, result>>

curvars == <<cursor, got>>

vars == <<source, globals, pc, parsed, trace, scanner, tokens, env, returned,
          saved, pushes, pops, parser, consumed, result, cursor, got>>

(***************************************************************************)
(* Characters                                                              *)
(***************************************************************************)

\* Cursor::EOF_CHAR, the character '\0'.
EOF_CHAR == "NUL"

Lower == {"a", "b", "c", "d", "e", "f", "g", "h", "i", "j", "k", "l", "m",
          "n", "o", "p", "q", "r", "s", "t", "u", "v", "w", "x", "y", "z"}

Upper == {"A", "B", "C", "D", "E", "F", "G", "H", "I", "J", "K", "L", "M",
          "N", "O", "P", "Q", "R", "S", "T", "U", "V", "W", "X", "Y", "Z"}

Digits == {"0", "1", "2", "3", "4", "5", "6", "7", "8", "9"}

\* char::is_ascii_whitespace: space, tab, line feed, form feed, carriage return.
is_ascii_whitespace(c) == c \in {" ", "\t", "\n", "\f", "\r"}

is_ascii_digit(c) == c \in Digits

is_identifier_start(c) == c \in Lower \cup Upper \/ c = "_"

is_identifier_continue(c) == c \in Lower \cup Upper \cup Digits \/ c = "_"

\* char::len_utf8 of the characters used.
len_utf8(ch) == IF ch = "U+00E9" THEN 2 ELSE 1

\* The number of bytes of the first k characters of s: one for each, and one
\* more for each that takes two.
BytesUpTo(s, k) == k + Cardinality({i \in 1..k : len_utf8(s[i]) = 2})

\* str::len: the number of bytes of the characters of s.
StrLen(s) == BytesUpTo(s, Len(s))

(***************************************************************************)
(* Cursor: [input, pos, start].  pos is the number of characters the Chars *)
(* iterator has yielded; start is a byte offset.                           *)
(***************************************************************************)

CursorNew(input) == [input |-> input, pos |-> 0, start |-> 0]

\* The character Cursor::advance returns.
AdvanceChar(c) == IF c.pos < Len(c.input) THEN c.input[c.pos + 1] ELSE EOF_CHAR

\* The cursor after Cursor::advance.
CursorAdvance(c) == IF c.pos < Len(c.input) THEN [c EXCEPT !.pos = @ + 1] ELSE c

lookahead(c, n) ==
    IF c.pos + n < Len(c.input) THEN c.input[c.pos + n + 1] ELSE EOF_CHAR

\* A bytes_remaining that counts characters.
bytes_remaining_Chars(c) == Len(c.input) - c.pos

\* Cursor::bytes_remaining: the length of the rest of the iterator's string.
bytes_remaining(c) == StrLen(c.input) - BytesUpTo(c.input, c.pos)

is_at_end(c) == lookahead(c, 0) = EOF_CHAR

current_index(c) == StrLen(c.input) - bytes_remaining(c)

\* A reset_start_index that leaves the start where it was.
reset_start_index_Keeps(c) == c

\* The cursor after Cursor::reset_start_index (the old start is its return value).
reset_start_index(c) == [c EXCEPT !.start = current_index(c)]

RECURSIVE CharsFrom(_, _, _, _)
\* The number of characters of input that start before byte offset b, given
\* that the first i of them take `bytes` bytes, all before b.
CharsFrom(input, b, i, bytes) ==
    IF i = Len(input) \/ bytes >= b THEN i
    ELSE CharsFrom(input, b, i + 1, bytes + len_utf8(input[i + 1]))

\* The number of characters of input that start before byte offset b.
CharsBefore(input, b) == CharsFrom(input, b, 0, 0)

\* Span::slice of the span (start, end) over input: the characters at the
\* byte offsets from start up to end.
Slice(input, start, end) ==
    SubSeq(input, CharsBefore(input, start) + 1, CharsBefore(input, end))

(***************************************************************************)
(* Tokens                                                                  *)
(***************************************************************************)

Token(start, end, kind) == [kind |-> kind, start |-> start, end |-> end]

\* Option::None for the parser's lookahead slot.
NoToken == Token(0, 0, "None")

keyword_kind_from_str(s) ==
    CASE s = <<"l", "e", "t">> -> "Let"
      [] s = <<"m", "u", "t">> -> "Mut"
      [] s = <<"f", "u", "n", "c">> -> "Func"
      [] s = <<"c", "l", "a", "s", "s">> -> "Class"
      [] s = <<"n", "o", "t">> -> "Not"
      [] s = <<"o", "r">> -> "Or"
      [] s = <<"a", "n", "d">> -> "And"
      [] s = <<"f", "o", "r">> -> "For"
      [] s = <<"w", "h", "i", "l", "e">> -> "While"
      [] s = <<"i", "f">> -> "If"
      [] s = <<"e", "l", "s", "e">> -> "Else"
      [] s = <<"r", "e", "t", "u", "r", "n">> -> "Return"
      [] s = <<"t", "h", "i", "s">> -> "This"
      [] s = <<"t", "r", "u", "e">> -> "True"
      [] s = <<"f", "a", "l", "s", "e">> -> "False"
      [] s = <<"n", "i", "l">> -> "Nil"
      [] OTHER -> "Identifier"

is_variable_length(kind) == kind \in {"Identifier", "String", "Number"}

\* impl Display for TokenKind.
Display(kind) ==
    CASE kind = "LParen" -> "("
      [] kind = "RParen" -> ")"
      [] kind = "LBrack" -> "["
      [] kind = "RBrack" -> "]"
      [] kind = "LBrace" -> "{"
      [] kind = "RBrace" -> "}"
      [] kind = "Period" -> "."
      [] kind = "Semicolon" -> ";"
      [] kind = "Comma" -> ","
      [] kind = "Identifier" -> "<idenifier>"
      [] kind = "Let" -> "let"
      [] kind = "Mut" -> "mut"
      [] kind = "Func" -> "func"
      [] kind = "Class" -> "class"
      [] kind = "Not" -> "not"
      [] kind = "Or" -> "or"
      [] kind = "And" -> "and"
      [] kind = "For" -> "for"
      [] kind = "While" -> "while"
      [] kind = "If" -> "if"
      [] kind = "Else" -> "else"
      [] kind = "Return" -> "return"
      [] kind = "This" -> "this"
      [] kind = "True" -> "true"
      [] kind = "False" -> "false"
      [] kind = "Nil" -> "nil"
      [] kind = "String" -> "<string>"
      [] kind = "Number" -> "<number>"
      [] kind = "StarStar" -> "**"
      [] kind = "Star" -> "*"
      [] kind = "Slash" -> "/"
      [] kind = "Percent" -> "%"
      [] kind = "Plus" -> "+"
      [] kind = "Minus" -> "-"
      [] kind = "Equal" -> "="
      [] kind = "PlusEqual" -> "+="
      [] kind = "MinusEqual" -> "-="
      [] kind = "StarEqual" -> "*="
      [] kind = "SlashEqual" -> "/="
      [] kind = "PercentEqual" -> "%="
      [] kind = "EqualEqual" -> "=="
      [] kind = "BangEqual" -> "!="
      [] kind = "Less" -> "<"
      [] kind = "LessEqual" -> "<="
      [] kind = "GreaterEqual" -> ">="
      [] kind = "Greater" -> ">"
      [] kind = "Eof" -> "<eof>"

(***************************************************************************)
(* Scanner.  A scan result is [c, ok, kind, start, end, msg]: the cursor   *)
(* after the call and either a token (ok) or a ScanError (its span, msg).  *)
(***************************************************************************)

\* A scan that skips no white space.
SkipWhitespace_None(c) == c

RECURSIVE SkipWhitespace(_)
\* The loop at the head of Scanner::scan.
SkipWhitespace(c) ==
    IF is_ascii_whitespace(lookahead(c, 0))
    THEN SkipWhitespace(CursorAdvance(c))
    ELSE c

RECURSIVE IdentifierLoop(_)
IdentifierLoop(c) ==
    IF is_identifier_continue(lookahead(c, 0))
    THEN IdentifierLoop(CursorAdvance(c))
    ELSE c

RECURSIVE DigitLoop(_)
DigitLoop(c) ==
    IF is_ascii_digit(lookahead(c, 0)) THEN DigitLoop(CursorAdvance(c)) ELSE c

\* Scanner::number: the cursor after the literal.
\* A number that takes a period after the integer part whatever follows it.
number_GreedyDot(c) ==
    LET AfterInteger(c1) ==
            IF lookahead(c1, 0) = "."
            THEN DigitLoop(CursorAdvance(c1))
            ELSE c1
    IN  AfterInteger(DigitLoop(c))

number(c) ==
    LET AfterInteger(c1) ==
            IF lookahead(c1, 0) = "." /\ is_ascii_digit(lookahead(c1, 1))
            THEN DigitLoop(CursorAdvance(c1))
            ELSE c1
    IN  AfterInteger(DigitLoop(c))

RECURSIVE StringLoop(_)
StringLoop(c) ==
    IF ~is_at_end(c) /\ lookahead(c, 0) # "\""
    THEN StringLoop(CursorAdvance(c))
    ELSE c

ScanOk(c, kind) ==
    [c |-> reset_start_index(c), ok |-> TRUE, kind |-> kind,
     start |-> c.start, end |-> current_index(c), msg |-> ""]

\* A ScanError whose span is empty, at the end of what was read.
ScanError_EmptySpan(c, msg) ==
    [c |-> reset_start_index(c), ok |-> FALSE, kind |-> "ScanError",
     start |-> current_index(c), end |-> current_index(c), msg |-> msg]

\* A ScanError that gives the last character read back to the cursor.
ScanError_Rewinds(c, msg) ==
    [c |-> [c EXCEPT !.pos = @ - 1, !.start = c.start], ok |-> FALSE,
     kind |-> "ScanError", start |-> c.start, end |-> current_index(c), msg |-> msg]

ScanError(c, msg) ==
    [c |-> reset_start_index(c), ok |-> FALSE, kind |-> "ScanError",
     start |-> c.start, end |-> current_index(c), msg |-> msg]

\* Scanner::string, with the token or the error it makes scan return.
string(c) ==
    LET Closing(c1) ==
            IF lookahead(c1, 0) # "\""
            THEN ScanError(c1, "expected closing quotes")
            ELSE ScanOk(CursorAdvance(c1), "String")
    IN  Closing(StringLoop(c))

\* Scanner::identifier, with the token scan returns.
identifier(c) ==
    LET Lexeme(c1) ==
            ScanOk(c1, keyword_kind_from_str(Slice(c1.input, c1.start,
                                                   current_index(c1))))
    IN  Lexeme(IdentifierLoop(c))

\* Scanner::scan.
scan(c0) ==
    LET Match(ch, c, la) ==
            CASE is_identifier_start(ch) -> identifier(c)
              [] ch \in Digits -> ScanOk(number(c), "Number")
              [] ch = "\"" -> string(c)
              [] ch = "{" -> ScanOk(c, "LBrace")
              [] ch = "}" -> ScanOk(c, "RBrace")
              [] ch = "(" -> ScanOk(c, "LParen")
              [] ch = ")" -> ScanOk(c, "RParen")
              [] ch = "[" -> ScanOk(c, "LBrack")
              [] ch = "]" -> ScanOk(c, "RBrack")
              [] ch = ";" -> ScanOk(c, "Semicolon")
              [] ch = "," -> ScanOk(c, "Comma")
              [] ch = "." -> ScanOk(c, "Period")
              [] ch = "-" /\ la = "=" -> ScanOk(CursorAdvance(c), "MinusEqual")
              [] ch = "*" /\ la = "=" -> ScanOk(CursorAdvance(c), "StarEqual")
              [] ch = "*" /\ la = "*" -> ScanOk(CursorAdvance(c), "StarStar")
              [] ch = "/" /\ la = "=" -> ScanOk(CursorAdvance(c), "SlashEqual")
              [] ch = "%" /\ la = "=" -> ScanOk(CursorAdvance(c), "PercentEqual")
              [] ch = "=" /\ la = "=" -> ScanOk(CursorAdvance(c), "EqualEqual")
              [] ch = "!" /\ la = "=" -> ScanOk(CursorAdvance(c), "BangEqual")
              [] ch = "<" /\ la = "=" -> ScanOk(CursorAdvance(c), "LessEqual")
              [] ch = ">" /\ la = "=" -> ScanOk(CursorAdvance(c), "GreaterEqual")
              [] ch = "+" -> ScanOk(c, "Plus")
              [] ch = "-" /\ la # "=" -> ScanOk(c, "Minus")
              [] ch = "*" /\ la \notin {"=", "*"} -> ScanOk(c, "Star")
              [] ch = "/" /\ la # "=" -> ScanOk(c, "Slash")
              [] ch = "%" /\ la # "=" -> ScanOk(c, "Percent")
              [] ch = "=" /\ la # "=" -> ScanOk(c, "Equal")
              [] ch = "<" /\ la # "=" -> ScanOk(c, "Less")
              [] ch = ">" /\ la # "=" -> ScanOk(c, "Greater")
              [] ch = EOF_CHAR -> ScanOk(c, "Eof")
              [] OTHER -> ScanError(c, "unexpected character '" \o ch \o "'")
        First(c1) ==
            Match(AdvanceChar(c1), CursorAdvance(c1),
                  lookahead(CursorAdvance(c1), 0))
    IN  First(reset_start_index(SkipWhitespace(c0)))

(***************************************************************************)
(* Values: <<"Number", n, d>> is the number n/d in lowest terms with d > 0 *)
(* (the exact value the f64 arithmetic approximates), <<"Bool", b>> and    *)
(* <<"Nil">>.                                                              *)
(***************************************************************************)

Abs(n) == IF n < 0 THEN -n ELSE n

RECURSIVE Gcd(_, _)
Gcd(a, b) == IF b = 0 THEN a ELSE Gcd(b, a % b)

\* The number n/d (d # 0) in lowest terms.
Number(n, d) ==
    LET Reduced(g, s) == <<"Number", (s * n) \div g, (s * d) \div g>>
    IN  Reduced(Gcd(Abs(n), Abs(d)), IF d < 0 THEN -1 ELSE 1)

Bool(b) == <<"Bool", b>>

Nil == <<"Nil">>

DigitValue(ch) ==
    CASE ch = "0" -> 0 [] ch = "1" -> 1 [] ch = "2" -> 2 [] ch = "3" -> 3
      [] ch = "4" -> 4 [] ch = "5" -> 5 [] ch = "6" -> 6 [] ch = "7" -> 7
      [] ch = "8" -> 8 [] ch = "9" -> 9

RECURSIVE ParseDigits(_, _, _)
\* Folds the decimal literal s into numerator and denominator, acc = <<n, d, seen>>
\* where seen tells whether the '.' has been passed.
ParseDigits(s, i, acc) ==
    IF i > Len(s) THEN acc
    ELSE IF s[i] = "." THEN ParseDigits(s, i + 1, <<acc[1], acc[2], TRUE>>)
    ELSE ParseDigits(s, i + 1,
                     <<acc[1] * 10 + DigitValue(s[i]),
                       IF acc[3] THEN acc[2] * 10 ELSE acc[2], acc[3]>>)

\* str::parse::<f64> on the text of a Number token.
ParseNumber(s) ==
    LET Ratio(r) == Number(r[1], r[2]) IN Ratio(ParseDigits(s, 1, <<0, 1, FALSE>>))

(***************************************************************************)
(* Operators and binding powers                                            *)
(***************************************************************************)

\* impl TryFrom<Token> for Operator; "NoOperator" stands for the Err case.
OperatorOf(kind) ==
    CASE kind = "Equal" -> "Assign"
      [] kind = "Or" -> "Or"
      [] kind = "And" -> "And"
      [] kind = "Not" -> "Not"
      [] kind = "EqualEqual" -> "Eq"
      [] kind = "BangEqual" -> "Ne"
      [] kind = "Less" -> "Lt"
      [] kind = "Greater" -> "Gt"
      [] kind = "LessEqual" -> "Le"
      [] kind = "GreaterEqual" -> "Ge"
      [] kind = "Plus" -> "Add"
      [] kind = "Minus" -> "Sub"
      [] kind = "Star" -> "Mul"
      [] kind = "Slash" -> "Div"
      [] kind = "Percent" -> "Mod"
      [] kind = "StarStar" -> "Exp"
      [] OTHER -> "NoOperator"

NoBp == [some |-> FALSE, l |-> 0, r |-> 0]

SomeBp(l, r) == [some |-> TRUE, l |-> l, r |-> r]

\* prefix_binding_power with unary minus as loose as `not`.
prefix_binding_power_MinusLoose(op) ==
    CASE op = "Not" -> SomeBp(0, 7)
      [] op = "Sub" -> SomeBp(0, 7)
      [] OTHER -> NoBp

\* Operator::prefix_binding_power; only r is meaningful.
prefix_binding_power(op) ==
    CASE op = "Not" -> SomeBp(0, 7)
      [] op = "Sub" -> SomeBp(0, 19)
      [] OTHER -> NoBp

\* infix_binding_power with the levels of + - and of * / % exchanged.
infix_binding_power_AddAboveMul(op) ==
    CASE op = "Assign" -> SomeBp(2, 1)
      [] op = "Or" -> SomeBp(3, 4)
      [] op = "And" -> SomeBp(5, 6)
      [] op \in {"Eq", "Ne"} -> SomeBp(9, 10)
      [] op \in {"Lt", "Gt", "Le", "Ge"} -> SomeBp(11, 12)
      [] op \in {"Add", "Sub"} -> SomeBp(15, 16)
      [] op \in {"Mul", "Div", "Mod"} -> SomeBp(13, 14)
      [] op = "Exp" -> SomeBp(18, 17)
      [] OTHER -> NoBp

\* infix_binding_power with the pair of ** written in the order of the others.
infix_binding_power_ExpLeft(op) ==
    CASE op = "Assign" -> SomeBp(2, 1)
      [] op = "Or" -> SomeBp(3, 4)
      [] op = "And" -> SomeBp(5, 6)
      [] op \in {"Eq", "Ne"} -> SomeBp(9, 10)
      [] op \in {"Lt", "Gt", "Le", "Ge"} -> SomeBp(11, 12)
      [] op \in {"Add", "Sub"} -> SomeBp(13, 14)
      [] op \in {"Mul", "Div", "Mod"} -> SomeBp(15, 16)
      [] op = "Exp" -> SomeBp(17, 18)
      [] OTHER -> NoBp

\* Operator::infix_binding_power.
infix_binding_power(op) ==
    CASE op = "Assign" -> SomeBp(2, 1)
      [] op = "Or" -> SomeBp(3, 4)
      [] op = "And" -> SomeBp(5, 6)
      [] op \in {"Eq", "Ne"} -> SomeBp(9, 10)
      [] op \in {"Lt", "Gt", "Le", "Ge"} -> SomeBp(11, 12)
      [] op \in {"Add", "Sub"} -> SomeBp(13, 14)
      [] op \in {"Mul", "Div", "Mod"} -> SomeBp(15, 16)
      [] op = "Exp" -> SomeBp(18, 17)
      [] OTHER -> NoBp

(***************************************************************************)
(* Parser.  The parser state is [scanner, peeked].  Every operation        *)
(* returns [p, kind, val]: the parser state after the call, and either     *)
(* kind = "Ok" with the returned value, kind = "Err" with the ParseError   *)
(* <<"ParseError", start, end, message>>, or kind = "Panic" with the panic *)
(* message when the call unwinds through todo!().                          *)
(***************************************************************************)

ParserNew(src) == [scanner |-> CursorNew(src), peeked |-> NoToken]

Ok(p, val) == [p |-> p, kind |-> "Ok", val |-> val]

Err(p, val) == [p |-> p, kind |-> "Err", val |-> val]

Panic(p, msg) == [p |-> p, kind |-> "Panic", val |-> <<"Panic", msg>>]

ParseError(token, msg) == <<"ParseError", token.start, token.end, msg>>

\* Parser::next_token: the first ScanError reaches todo!().
next_token(p) ==
    LET Scanned(r) ==
            IF r.ok
            THEN Ok([p EXCEPT !.scanner = r.c], Token(r.start, r.end, r.kind))
            ELSE Panic([p EXCEPT !.scanner = r.c], "not yet implemented")
    IN  Scanned(scan(p.scanner))

\* An advance that returns the token in the slot and leaves it there.
advance_KeepsSlot(p) ==
    IF p.peeked.kind # "None"
    THEN Ok(p, p.peeked)
    ELSE next_token(p)

\* Parser::advance.
advance(p) ==
    IF p.peeked.kind # "None"
    THEN Ok([p EXCEPT !.peeked = NoToken], p.peeked)
    ELSE next_token(p)

\* Parser::peek.
peek(p) ==
    LET Try(r, Then(_)) == IF r.kind # "Ok" THEN r ELSE Then(r)
    IN  IF p.peeked.kind # "None" THEN Ok(p, p.peeked)
        ELSE Try(next_token(p), LAMBDA r : Ok([r.p EXCEPT !.peeked = r.val], r.val))

\* Parser::advance_if; val is the boolean returned.
advance_if(p, kind) ==
    LET Try(r, Then(_)) == IF r.kind # "Ok" THEN r ELSE Then(r)
    IN  Try(peek(p), LAMBDA k :
            IF k.val.kind = kind
            THEN Try(advance(k.p), LAMBDA a : Ok(a.p, TRUE))
            ELSE Ok(k.p, FALSE))

\* The message Parser::expect builds for `expected`.
ExpectMessage(expected) ==
    IF is_variable_length(expected) \/ expected = "Eof"
    THEN "expected " \o Display(expected)
    ELSE "expected '" \o Display(expected) \o "'"

\* An expect that also consumes the token that does not match.
expect_Skips(p, expected) ==
    LET Try(r, Then(_)) == IF r.kind # "Ok" THEN r ELSE Then(r)
    IN  Try(peek(p), LAMBDA k :
        Try(advance_if(k.p, expected), LAMBDA a :
            IF a.val THEN Ok(a.p, <<>>)
            ELSE Err([a.p EXCEPT !.peeked = NoToken],
                     ParseError(k.val, ExpectMessage(expected)))))

\* Parser::expect.
expect(p, expected) ==
    LET Try(r, Then(_)) == IF r.kind # "Ok" THEN r ELSE Then(r)
    IN  Try(peek(p), LAMBDA k :
        Try(advance_if(k.p, expected), LAMBDA a :
            IF a.val THEN Ok(a.p, <<>>)
            ELSE Err(a.p, ParseError(k.val, ExpectMessage(expected)))))

RECURSIVE expr_bp(_, _), InfixLoop(_, _, _)

\* The prefix position of Parser::expr_bp, token being the advanced token.
PrefixExpr(p, token) ==
    LET Try(r, Then(_)) == IF r.kind # "Ok" THEN r ELSE Then(r)
        text == Slice(p.scanner.input, token.start, token.end)
        kind == token.kind
        Prefix(operator, bp) ==
            IF operator = "NoOperator"
            THEN Err(p, ParseError(token, "unexpected token: " \o kind))
            ELSE IF bp.some
            THEN Try(expr_bp(p, bp.r), LAMBDA e :
                     Ok(e.p, <<"Unary", operator, e.val>>))
            ELSE Panic(p, "not yet implemented: error reporting")
    IN  CASE kind = "Identifier" -> Ok(p, <<"Identifier", text>>)
          [] kind = "Number" -> Ok(p, <<"Literal", ParseNumber(text)>>)
          [] kind = "String" -> Panic(p, "not yet implemented")
          [] kind = "False" -> Ok(p, <<"Literal", Bool(FALSE)>>)
          [] kind = "True" -> Ok(p, <<"Literal", Bool(TRUE)>>)
          [] kind = "Nil" -> Ok(p, <<"Literal", Nil>>)
          [] kind = "LParen" ->
               Try(expr_bp(p, 0), LAMBDA e :
               Try(expect(e.p, "RParen"), LAMBDA x : Ok(x.p, e.val)))
          [] OTHER ->
               Prefix(OperatorOf(kind), prefix_binding_power(OperatorOf(kind)))

\* The check that follows the infix loop of Parser::expr_bp.
AfterLoop(p, expr) ==
    LET Try(r, Then(_)) == IF r.kind # "Ok" THEN r ELSE Then(r)
    IN  Try(peek(p), LAMBDA k :
            IF k.val.kind = "Equal"
            THEN Panic(k.p, "not yet implemented: invalid assignment target")
            ELSE Ok(k.p, expr))

\* The infix loop of Parser::expr_bp with `expr` parsed so far.
InfixLoop(p, expr, min_bp) ==
    LET Try(r, Then(_)) == IF r.kind # "Ok" THEN r ELSE Then(r)
        Infix(k, operator, bp) ==
            IF operator = "NoOperator" \/ ~bp.some \/ bp.l < min_bp
            THEN AfterLoop(k.p, expr)
            ELSE Try(advance(k.p), LAMBDA a :
                     IF min_bp = 0 /\ operator = "Assign"
                     THEN Try(expr_bp(a.p, 0), LAMBDA e :
                              AfterLoop(e.p, <<"Assignment", expr, e.val>>))
                     ELSE Try(expr_bp(a.p, bp.r), LAMBDA e :
                              InfixLoop(e.p, <<"Binary", operator, expr, e.val>>,
                                        min_bp)))
    IN  Try(peek(p), LAMBDA k :
            Infix(k, OperatorOf(k.val.kind),
                  infix_binding_power(OperatorOf(k.val.kind))))

\* Parser::expr_bp.
expr_bp(p, min_bp) ==
    LET Try(r, Then(_)) == IF r.kind # "Ok" THEN r ELSE Then(r)
    IN  Try(advance(p), LAMBDA a :
        Try(PrefixExpr(a.p, a.val), LAMBDA e : InfixLoop(e.p, e.val, min_bp)))

\* Parser::expr.
expr(p) == expr_bp(p, 0)

\* Parser::expr_stmt.
expr_stmt(p) ==
    LET Try(r, Then(_)) == IF r.kind # "Ok" THEN r ELSE Then(r)
    IN  Try(expr(p), LAMBDA e :
        Try(expect(e.p, "Semicolon"), LAMBDA x : Ok(x.p, <<"Expr", e.val>>)))

\* Parser::var_decl.
var_decl(p) ==
    LET Try(r, Then(_)) == IF r.kind # "Ok" THEN r ELSE Then(r)
    IN  Try(expect(p, "Let"), LAMBDA x :
        Try(advance(x.p), LAMBDA a :
        Try(advance_if(a.p, "Equal"), LAMBDA q :
        Try(IF q.val THEN expr(q.p) ELSE Ok(q.p, <<>>), LAMBDA e :
        Try(expect(e.p, "Semicolon"), LAMBDA y :
            Ok(y.p, <<"VarDecl",
                      Slice(p.scanner.input, a.val.start, a.val.end),
                      IF q.val THEN <<"Some", e.val>> ELSE <<"None">>>>))))))

RECURSIVE stmt(_), BlockLoop(_, _)

\* The loop of Parser::block_stmt with the statements pushed so far.
BlockLoop(p, statments) ==
    LET Try(r, Then(_)) == IF r.kind # "Ok" THEN r ELSE Then(r)
    IN  Try(peek(p), LAMBDA k :
            IF k.val.kind \in {"Eof", "RBrace"} THEN Ok(k.p, statments)
            ELSE Try(stmt(k.p), LAMBDA s : BlockLoop(s.p, Append(statments, s.val))))

\* Parser::block_stmt.
block_stmt(p) ==
    LET Try(r, Then(_)) == IF r.kind # "Ok" THEN r ELSE Then(r)
    IN  Try(expect(p, "LBrace"), LAMBDA x :
        Try(BlockLoop(x.p, <<>>), LAMBDA b :
        Try(expect(b.p, "RBrace"), LAMBDA y : Ok(y.p, <<"Block", b.val>>))))

\* Parser::if_stmt.
if_stmt(p) ==
    LET Try(r, Then(_)) == IF r.kind # "Ok" THEN r ELSE Then(r)
    IN  Try(expect(p, "If"), LAMBDA x :
        Try(expr(x.p), LAMBDA predicate :
        Try(block_stmt(predicate.p), LAMBDA consequent :
        Try(advance_if(consequent.p, "Else"), LAMBDA q :
        Try(IF q.val THEN block_stmt(q.p) ELSE Ok(q.p, <<>>), LAMBDA b :
            Ok(b.p, <<"If", predicate.val, consequent.val,
                      IF q.val THEN <<"Some", b.val>> ELSE <<"None">>>>))))))

\* Parser::stmt.
stmt(p) ==
    LET Try(r, Then(_)) == IF r.kind # "Ok" THEN r ELSE Then(r)
    IN  Try(peek(p), LAMBDA k :
            CASE k.val.kind = "LBrace" -> block_stmt(k.p)
              [] k.val.kind = "Let" -> var_decl(k.p)
              [] k.val.kind = "If" -> if_stmt(k.p)
              [] OTHER -> expr_stmt(k.p))

\* Parser::parse.
parse(p) == stmt(p)

(***************************************************************************)
(* Interpreter.  The interpreter state is [globals, trace, status]:        *)
(* globals is the HashMap of the interpreter, a function from the defined  *)
(* names to their values; trace records, in order, every insert into       *)
(* globals and every line printed; status is "running" until a panic       *)
(* unwinds the call ("panicked") or a number leaves the modelled range     *)
(* ("unmodelled").  interpret_expr returns [st, kind, val] with kind "Ok"  *)
(* (val a value), "Err" (val a RuntimeError), "Panic" or "Unmodelled".     *)
(***************************************************************************)

\* Numbers are kept within -MaxNum .. MaxNum (numerator and denominator).
MaxNum == 30000

\* Exponents of ** are kept within 0 .. MaxExponent.
MaxExponent == 12

InRange(v) == Abs(v[2]) <= MaxNum /\ v[3] <= MaxNum

\* A truthiness in which the number 0 is falsy.
is_truthy_ZeroFalsy(v) ==
    CASE v[1] = "Number" -> v[2] # 0
      [] v[1] = "Bool" -> v[2]
      [] v[1] = "Nil" -> FALSE

\* Value::is_truthy.
is_truthy(v) ==
    CASE v[1] = "Number" -> TRUE
      [] v[1] = "Bool" -> v[2]
      [] v[1] = "Nil" -> FALSE

RuntimeError(e) == <<"RuntimeError", e>>

EOk(st, val) == [st |-> st, kind |-> "Ok", val |-> val]

EErr(st, e) == [st |-> st, kind |-> "Err", val |-> RuntimeError(e)]

EPanic(st, msg) == [st |-> st, kind |-> "Panic", val |-> <<"Panic", msg>>]

EUnmodelled(st) == [st |-> st, kind |-> "Unmodelled", val |-> <<"Unmodelled">>]

\* HashMap::insert on globals, recorded in the trace.
Insert(st, name, value) ==
    [st EXCEPT !.globals = [n \in DOMAIN st.globals \cup {name} |->
                                IF n = name THEN value ELSE st.globals[n]],
               !.trace = Append(@, <<"insert", name, value>>)]

\* println!/eprintln! of one line.
PrintLine(st, line) == [st EXCEPT !.trace = Append(@, line)]

\* check_number_operands.
check_number_operands(a, b) == a[1] = "Number" /\ b[1] = "Number"

\* The integer part of n/d, rounded towards zero (d > 0).
Trunc(n, d) == IF n >= 0 THEN n \div d ELSE -((-n) \div d)

RECURSIVE PowNat(_, _, _)
\* base ** e for a natural number e, acc being the product so far;
\* <<"Unmodelled">> once the product leaves the modelled range.
PowNat(base, e, acc) ==
    IF ~InRange(acc) THEN <<"Unmodelled">>
    ELSE IF e = 0 THEN acc
    ELSE PowNat(base, e - 1, Number(acc[2] * base[2], acc[3] * base[3]))

\* f64::powf on modelled numbers: integer exponents only.
Powf(a, b) ==
    IF b[3] # 1 \/ Abs(b[2]) > MaxExponent THEN <<"Unmodelled">>
    ELSE IF b[2] >= 0 THEN PowNat(a, b[2], Number(1, 1))
    ELSE IF a[2] = 0 THEN <<"Unmodelled">>
    ELSE PowNat(Number(a[3], a[2]), -b[2], Number(1, 1))

\* The value a binary operator other than `and`/`or` computes from two numbers.
Arith(op, a, b) ==
    CASE op = "Lt" -> Bool(a[2] * b[3] < b[2] * a[3])
      [] op = "Gt" -> Bool(a[2] * b[3] > b[2] * a[3])
      [] op = "Le" -> Bool(a[2] * b[3] <= b[2] * a[3])
      [] op = "Ge" -> Bool(a[2] * b[3] >= b[2] * a[3])
      [] op = "Add" -> Number(a[2] * b[3] + b[2] * a[3], a[3] * b[3])
      [] op = "Sub" -> Number(a[2] * b[3] - b[2] * a[3], a[3] * b[3])
      [] op = "Mul" -> Number(a[2] * b[2], a[3] * b[3])
      [] op = "Div" -> Number(a[2] * b[3], a[3] * b[2])
      [] op = "Mod" ->
           LET q == Trunc(a[2] * b[3] * (IF b[2] < 0 THEN -1 ELSE 1),
                          a[3] * Abs(b[2]))
           IN  Number(a[2] * b[3] - q * b[2] * a[3], a[3] * b[3])
      [] op = "Exp" -> Powf(a, b)

\* A Binary case in which a zero divisor is reported as an invalid operand.
BinaryOp_ZeroDivisorIsInvalidOperand(st, op, left, right) ==
    LET InModel(v) ==
            IF v[1] = "Unmodelled" THEN EUnmodelled(st)
            ELSE IF v[1] = "Number" /\ ~InRange(v) THEN EUnmodelled(st)
            ELSE EOk(st, v)
    IN  CASE op = "Eq" -> EOk(st, Bool(left = right))
          [] op = "Ne" -> EOk(st, Bool(left # right))
          [] op \in {"Lt", "Gt", "Le", "Ge", "Add", "Sub", "Mul", "Div", "Mod",
                     "Exp"} ->
               IF ~check_number_operands(left, right)
               THEN EErr(st, "InvalidOperand")
               ELSE IF op \in {"Div", "Mod"} /\ right[2] = 0
               THEN EErr(st, "InvalidOperand")
               ELSE InModel(Arith(op, left, right))
          [] OTHER -> EPanic(st, "internal error: entered unreachable code")

\* A Binary case in which == and != demand two numbers.
BinaryOp_EqualityNeedsNumbers(st, op, left, right) ==
    LET InModel(v) ==
            IF v[1] = "Unmodelled" THEN EUnmodelled(st)
            ELSE IF v[1] = "Number" /\ ~InRange(v) THEN EUnmodelled(st)
            ELSE EOk(st, v)
    IN  CASE op \in {"Eq", "Ne"} /\ ~check_number_operands(left, right) ->
               EErr(st, "InvalidOperand")
          [] op = "Eq" /\ check_number_operands(left, right) ->
               EOk(st, Bool(left = right))
          [] op = "Ne" /\ check_number_operands(left, right) ->
               EOk(st, Bool(left # right))
          [] op \in {"Lt", "Gt", "Le", "Ge", "Add", "Sub", "Mul", "Div", "Mod",
                     "Exp"} ->
               IF ~check_number_operands(left, right)
               THEN EErr(st, "InvalidOperand")
               ELSE IF op \in {"Div", "Mod"} /\ right[2] = 0
               THEN EErr(st, "DivisionByZero")
               ELSE InModel(Arith(op, left, right))
          [] OTHER -> EPanic(st, "internal error: entered unreachable code")

\* The arms of `match op` in the Binary case of interpret_expr.
BinaryOp(st, op, left, right) ==
    LET InModel(v) ==
            IF v[1] = "Unmodelled" THEN EUnmodelled(st)
            ELSE IF v[1] = "Number" /\ ~InRange(v) THEN EUnmodelled(st)
            ELSE EOk(st, v)
    IN  CASE op = "Eq" -> EOk(st, Bool(left = right))
          [] op = "Ne" -> EOk(st, Bool(left # right))
          [] op \in {"Lt", "Gt", "Le", "Ge", "Add", "Sub", "Mul", "Div", "Mod",
                     "Exp"} ->
               IF ~check_number_operands(left, right)
               THEN EErr(st, "InvalidOperand")
               ELSE IF op \in {"Div", "Mod"} /\ right[2] = 0
               THEN EErr(st, "DivisionByZero")
               ELSE InModel(Arith(op, left, right))
          [] OTHER -> EPanic(st, "internal error: entered unreachable code")

\* A Unary case in which `not` negates the truthiness of any operand.
UnaryOp_NotOfAnyValue(st, op, right) ==
    CASE op = "Not" -> EOk(st, Bool(~is_truthy(right)))
      [] op = "Sub" ->
           IF right[1] = "Number" THEN EOk(st, Number(-right[2], right[3]))
           ELSE EErr(st, "InvalidOperand")
      [] OTHER -> EPanic(st, "internal error: entered unreachable code")

\* The arms of `match op` in the Unary case of interpret_expr.
UnaryOp(st, op, right) ==
    CASE op = "Not" ->
           IF right[1] = "Bool" THEN EOk(st, Bool(~right[2]))
           ELSE EErr(st, "InvalidOperand")
      [] op = "Sub" ->
           IF right[1] = "Number" THEN EOk(st, Number(-right[2], right[3]))
           ELSE EErr(st, "InvalidOperand")
      [] OTHER -> EPanic(st, "internal error: entered unreachable code")

\* An assignment that defines the name when it has no binding.
Assign_DefinesMissingName(st, target, right) ==
    IF target[1] = "Identifier"
    THEN EOk(Insert(st, target[2], right), right)
    ELSE EPanic(st, "not implemented")

\* An assignment that stores the value and yields nil instead of it.
Assign_YieldsNil(st, target, right) ==
    IF target[1] = "Identifier"
    THEN IF target[2] \in DOMAIN st.globals
         THEN EOk(Insert(st, target[2], right), Nil)
         ELSE EErr(st, "UndefinedVariable")
    ELSE EPanic(st, "not implemented")

\* The Assignment arm of interpret_expr once the right-hand side is `right`.
Assign(st, target, right) ==
    IF target[1] = "Identifier"
    THEN IF target[2] \in DOMAIN st.globals
         THEN EOk(Insert(st, target[2], right), right)
         ELSE EErr(st, "UndefinedVariable")
    ELSE EPanic(st, "not implemented")

RECURSIVE interpret_expr(_, _)
\* Interpreter::interpret_expr.
interpret_expr(e, st) ==
    LET Try(r, Then(_)) == IF r.kind # "Ok" THEN r ELSE Then(r)
    IN  CASE e[1] = "Literal" -> EOk(st, e[2])
          [] e[1] = "Identifier" ->
               IF e[2] \in DOMAIN st.globals THEN EOk(st, st.globals[e[2]])
               ELSE EErr(st, "UndefinedVariable")
          [] e[1] = "Assignment" ->
               Try(interpret_expr(e[3], st), LAMBDA right :
                   Assign(right.st, e[2], right.val))
          [] e[1] = "Binary" /\ e[2] = "Or" ->
               Try(interpret_expr(e[3], st), LAMBDA left :
                   IF is_truthy(left.val) THEN left
                   ELSE interpret_expr(e[4], left.st))
          [] e[1] = "Binary" /\ e[2] = "And" ->
               Try(interpret_expr(e[3], st), LAMBDA left :
                   IF ~is_truthy(left.val) THEN left
                   ELSE interpret_expr(e[4], left.st))
          [] e[1] = "Binary" /\ e[2] \notin {"Or", "And"} ->
               Try(interpret_expr(e[3], st), LAMBDA left :
               Try(interpret_expr(e[4], left.st), LAMBDA right :
                   BinaryOp(right.st, e[2], left.val, right.val)))
          [] e[1] = "Unary" ->
               Try(interpret_expr(e[3], st), LAMBDA right :
                   UnaryOp(right.st, e[2], right.val))

\* What interpret_stmt does with the result r of an expression it evaluated:
\* the value or the error message is printed, a panic unwinds.
Report(r) ==
    CASE r.kind = "Ok" -> PrintLine(r.st, <<"value", r.val>>)
      [] r.kind = "Err" -> PrintLine(r.st, <<"runtime error", r.val[2]>>)
      [] r.kind = "Panic" -> [r.st EXCEPT !.status = "panicked"]
      [] r.kind = "Unmodelled" -> [r.st EXCEPT !.status = "unmodelled"]

RECURSIVE interpret_stmt(_, _), InterpretBlock(_, _, _)

\* The for loop of the Block arm, from statement i on.
InterpretBlock(stmts, i, st) ==
    IF i > Len(stmts) \/ st.status # "running" THEN st
    ELSE InterpretBlock(stmts, i + 1, interpret_stmt(stmts[i], st))

\* Interpreter::interpret_stmt.  It has no arm for Stmt::If.
interpret_stmt(s, st) ==
    LET Declare(r) ==
            IF r.kind = "Ok" THEN Insert(Report(r), s[2], r.val) ELSE Report(r)
    IN  CASE s[1] = "Block" -> InterpretBlock(s[2], 1, st)
          [] s[1] = "Expr" -> Report(interpret_expr(s[2], st))
          [] s[1] = "VarDecl" ->
               IF s[3][1] = "Some" THEN Declare(interpret_expr(s[3][2], st))
               ELSE Insert(st, s[2], Nil)

RECURSIVE HasIf(_)
\* Whether statement s holds an `if` statement.
HasIf(s) ==
    CASE s[1] = "If" -> TRUE
      [] s[1] = "Block" -> \E i \in 1..Len(s[2]) : HasIf(s[2][i])
      [] OTHER -> FALSE

(***************************************************************************)
(* Environment.  An Environment is the record [parent, map]: map is the    *)
(* HashMap of the frame, a function from the names it binds to their       *)
(* values, and parent is None or Some(the enclosing Environment).  The     *)
(* Environment at hand is the innermost frame; the one without parent is   *)
(* the root.                                                               *)
(***************************************************************************)

None == <<"None">>

Some(v) == <<"Some", v>>

\* The value () of a call that returns nothing.
Unit == <<"Unit">>

\* HashMap::default.
EmptyMap == [n \in {} |-> Nil]

\* Environment::default (derived).
Default == [parent |-> None, map |-> EmptyMap]

\* Frames are at most MaxFrames deep.
MaxFrames == 2

\* Calls of push in one behaviour are at most MaxPushes.
MaxPushes == 3

\* An insert that reaches the outermost frame instead of the innermost.
RECURSIVE define_InRoot(_, _, _)
define_InRoot(e, name, value) ==
    IF e.parent[1] = "None"
    THEN [e EXCEPT !.map = [n \in DOMAIN e.map \cup {name} |->
                                IF n = name THEN value ELSE e.map[n]]]
    ELSE [e EXCEPT !.parent = Some(define_InRoot(e.parent[2], name, value))]

\* Environment::define: HashMap::insert into this frame's map.
define(e, name, value) ==
    [e EXCEPT !.map = [n \in DOMAIN e.map \cup {name} |->
                           IF n = name THEN value ELSE e.map[n]]]

RECURSIVE find(_, _)
\* Environment::find: this frame's binding, or else the parent's find.
find(e, name) ==
    IF name \in DOMAIN e.map THEN Some(e.map[name])
    ELSE IF e.parent[1] = "None" THEN None
    ELSE find(e.parent[2], name)

\* Environment::get: a copy of what find refers to.
get(e, name) == find(e, name)

RECURSIVE find_mut(_, _)
\* Environment::find_mut.  The reference it returns is modelled by the number
\* of parent links between this frame and the frame that holds the binding.
find_mut(e, name) ==
    IF name \in DOMAIN e.map THEN Some(0)
    ELSE IF e.parent[1] = "None" THEN None
    ELSE LET Outer(slot) == IF slot[1] = "None" THEN None ELSE Some(slot[2] + 1)
         IN  Outer(find_mut(e.parent[2], name))

RECURSIVE Deref(_, _, _)
\* The value the reference (k, name) refers to in e.
Deref(e, k, name) == IF k = 0 THEN e.map[name] ELSE Deref(e.parent[2], k - 1, name)

RECURSIVE Store(_, _, _, _)
\* e after value has been written through the reference (k, name).
Store(e, k, name, value) ==
    IF k = 0 THEN [e EXCEPT !.map[name] = value]
    ELSE [e EXCEPT !.parent = Some(Store(e.parent[2], k - 1, name, value))]

RECURSIVE set_EveryFrame(_, _, _)
\* A set that overwrites the binding of name in every frame that has one.
set_EveryFrame(e, name, value) ==
    LET Here(old) ==
            IF name \in DOMAIN e.map
            THEN [env |-> [old.env EXCEPT !.map[name] = value],
                  returned |-> Some(e.map[name])]
            ELSE old
        Rest(r) ==
            Here([env |-> [e EXCEPT !.parent = Some(r.env)], returned |-> r.returned])
    IN  IF e.parent[1] = "None" THEN Here([env |-> e, returned |-> None])
        ELSE Rest(set_EveryFrame(e.parent[2], name, value))

\* Environment::set: [env, returned], the Environment after the call and the
\* Option returned.  mem::swap through find_mut's reference leaves the new
\* value in the binding and the old one in `value`.
set(e, name, value) ==
    LET Swap(slot) ==
            IF slot[1] = "None" THEN [env |-> e, returned |-> None]
            ELSE [env |-> Store(e, slot[2], name, value),
                  returned |-> Some(Deref(e, slot[2], name))]
    IN  Swap(find_mut(e, name))

\* A push whose new frame starts with a copy of the bindings of the old head.
push_CopiesHead(e) == [parent |-> Some(e), map |-> e.map]

\* Environment::push: mem::take leaves Default in place of the Environment,
\* which then becomes the parent.
push(e) == [Default EXCEPT !.parent = Some(e)]

\* Environment::pop: [kind, env]; the expect panics on the root.
pop(e) ==
    IF e.parent[1] = "None"
    THEN [kind |-> "Panic", env |-> e, msg |-> "pop called on root environment"]
    ELSE [kind |-> "Ok", env |-> e.parent[2], msg |-> ""]

RECURSIVE Depth(_)
\* The number of frames of e.
Depth(e) == IF e.parent[1] = "None" THEN 1 ELSE 1 + Depth(e.parent[2])

\* The Environment before any call.
EnvIdle ==
    /\ env = Default
    /\ returned = Unit
    /\ saved = <<>>
    /\ pushes = 0
    /\ pops = 0

\* The scanner before any text is given to it.
ScanIdle ==
    /\ scanner = CursorNew(<<>>)
    /\ tokens = <<>>

\* No call has been made on the Parser.
NoCall == [op |-> "none", arg |-> "", kind |-> "Ok", val |-> <<>>]

TokIdle ==
    /\ parser = ParserNew(<<>>)
    /\ consumed = <<>>
    /\ result = NoCall

\* No call has been made on the Cursor.
NoChar == [op |-> "none", n |-> 0, val |-> ""]

CurIdle ==
    /\ cursor = CursorNew(<<>>)
    /\ got = NoChar

(***************************************************************************)
(* Source texts.  A source is a sequence of lexemes joined by one space.   *)
(***************************************************************************)

\* Operators in a chain `x op y op z ...` are at most MaxOps.
MaxOps == 2

\* Statements in a sequence or in a block are at most MaxStmts.
MaxStmts == 2

RECURSIVE Join(_)
Join(lexemes) ==
    IF lexemes = <<>> THEN <<>>
    ELSE IF Len(lexemes) = 1 THEN lexemes[1]
    ELSE lexemes[1] \o <<" ">> \o Join(Tail(lexemes))

RECURSIVE Flatten(_)
Flatten(seqs) == IF seqs = <<>> THEN <<>> ELSE seqs[1] \o Flatten(Tail(seqs))

SeqsUpTo(S, n) == UNION {[1..k -> S] : k \in 0..n}

L_let == <<"l", "e", "t">>
L_if == <<"i", "f">>
L_else == <<"e", "l", "s", "e">>
L_not == <<"n", "o", "t">>
L_true == <<"t", "r", "u", "e">>
L_false == <<"f", "a", "l", "s", "e">>
L_nil == <<"n", "i", "l">>

InfixLexemes ==
    {<<"=">>, <<"o", "r">>, <<"a", "n", "d">>, <<"=", "=">>, <<"!", "=">>,
     <<"<">>, <<">">>, <<"<", "=">>, <<">", "=">>, <<"+">>, <<"-">>, <<"*">>,
     <<"/">>, <<"%">>, <<"*", "*">>}

\* The operands of a chain, used cyclically.
OperandRows ==
    {<<<<"1">>, <<"2">>, <<"3">>>>,
     <<<<"a">>, <<"b">>, <<"3">>>>,
     <<L_false, <<"1">>, <<"0">>>>,
     <<L_true, <<"b">>, L_nil>>}

Chain(row, ops) ==
    [i \in 1..(2 * Len(ops) + 1) |->
        IF i % 2 = 1 THEN row[(((i + 1) \div 2 - 1) % Len(row)) + 1]
        ELSE ops[i \div 2]]

ChainSources ==
    {Join(Chain(row, ops) \o <<<<";">>>>) :
        row \in OperandRows, ops \in SeqsUpTo(InfixLexemes, MaxOps)}

\* Lexemes put in front of an expression: the prefix operators, infix-only
\* operators, and tokens that start no expression.
PrefixLexemes ==
    {L_not, <<"-">>, <<"*">>, <<"=", "=">>, <<"=">>, <<"*", "*">>, <<")">>,
     <<";">>, L_else, <<"(">>}

PrefixSources ==
    {Join(<<pre>> \o Chain(row, ops) \o <<<<";">>>>) :
        pre \in PrefixLexemes,
        row \in {<<<<"a">>, <<"b">>>>, <<<<"1">>, <<"2">>>>},
        ops \in SeqsUpTo(InfixLexemes, 1)}

\* Texts the scanner rejects, and a string literal.
BadLexemes == {<<"@">>, <<"!">>, <<"\"", "s">>, <<"\"", "s", "\"">>}

ScanErrorSources ==
    {Join(pre \o <<bad>> \o post) :
        bad \in BadLexemes,
        pre \in {<<>>, <<<<"1">>, <<"+">>>>, <<L_let, <<"a">>, <<"=">>>>, <<L_let>>,
                 <<<<"{">>>>, <<L_if>>, <<<<"a">>>>},
        post \in {<<>>, <<<<";">>>>}}

GroupSources ==
    {Join(<<x, op, <<"(">>>> \o y \o <<<<")">>, <<";">>>>) :
        x \in {L_false, L_true, L_nil, <<"0">>, <<"a">>},
        op \in {<<"a", "n", "d">>, <<"o", "r">>},
        y \in {<<<<"1">>, <<"/">>, <<"0">>>>, <<<<"b">>, <<"=">>, <<"2">>>>,
               <<<<"2">>>>, <<L_nil>>, <<<<"c">>>>}}
    \cup
    {Join(<<<<"(">>>> \o y \o close \o <<<<"=">>, <<"3">>, <<";">>>>) :
        y \in {<<<<"a">>>>, <<<<"a">>, <<"+">>, <<"b">>>>, <<<<"1">>>>},
        close \in {<<<<")">>>>, <<>>}}

LetSources ==
    {Join(<<L_let>> \o name \o init \o semi) :
        name \in {<<<<"a">>>>, <<<<"b">>>>, <<<<"5">>>>, <<L_if>>, <<<<";">>>>,
                  <<<<"=">>>>, <<>>},
        init \in {<<>>, <<<<"=">>, <<"3">>>>, <<<<"=">>, <<"a">>>>,
                  <<<<"=">>, <<"1">>, <<"+">>, <<"2">>>>, <<<<"=">>>>},
        semi \in {<<<<";">>>>, <<>>}}

SimpleStmts ==
    {<<L_let, <<"a">>, <<"=">>, <<"1">>, <<";">>>>,
     <<<<"a">>, <<"=">>, <<"2">>, <<";">>>>,
     <<L_let, <<"b">>, <<";">>>>,
     <<<<"b">>, <<"=">>, <<"a">>, <<";">>>>,
     <<<<"a">>, <<";">>>>,
     <<<<"1">>, <<"/">>, <<"0">>, <<";">>>>,
     <<<<"{">>, <<"}">>>>}

StmtSeqSources == {Join(Flatten(ss)) : ss \in SeqsUpTo(SimpleStmts, MaxStmts)}

BlockSources ==
    {Join(<<<<"{">>>> \o Flatten(ss) \o close) :
        ss \in SeqsUpTo(SimpleStmts, MaxStmts),
        close \in {<<<<"}">>>>, <<>>, <<<<"}">>, <<"a">>, <<";">>>>}}

IfBodies ==
    {<<<<"{">>, <<"}">>>>,
     <<<<"{">>, <<"a">>, <<";">>, <<"}">>>>,
     <<<<"a">>, <<";">>>>,
     <<L_if, <<"b">>, <<"{">>, <<"}">>>>,
     <<L_if, <<"b">>, <<"{">>, <<"}">>, L_else, <<"{">>, <<"}">>>>,
     <<L_let, <<"a">>, <<";">>>>}

IfSources ==
    {Join(<<L_if>> \o cond \o body \o alt) :
        cond \in {<<<<"a">>>>, <<L_true>>, <<>>},
        body \in IfBodies,
        alt \in {<<>>} \cup {<<L_else>> \o b : b \in IfBodies} \cup {<<L_else>>}}

\* Operands of every variant: numbers, booleans, nil, a name the REPL may
\* have defined and a name that is never defined.
OperandLexemes ==
    {<<"0">>, <<"3">>, <<"2", ".", "5">>, L_true, L_false, L_nil, <<"a">>, <<"c">>}

BinarySources ==
    {Join(<<x, op, y, <<";">>>>) :
        x \in OperandLexemes, op \in InfixLexemes, y \in OperandLexemes}

UnarySources ==
    {Join(pre \o <<x, <<";">>>>) :
        pre \in {<<L_not>>, <<<<"-">>>>, <<L_not, L_not>>, <<<<"-">>, <<"-">>>>,
                 <<L_not, <<"-">>>>},
        x \in OperandLexemes}

AssignSources ==
    {Join(<<x, <<"=">>, y, <<"=">>, v, <<";">>>>) :
        x \in {<<"a">>, <<"c">>}, y \in {<<"a">>, <<"b">>, <<"c">>},
        v \in {<<"3">>, <<"c">>}}

Sources ==
    ChainSources \cup PrefixSources \cup ScanErrorSources \cup GroupSources
    \cup LetSources \cup StmtSeqSources \cup BlockSources \cup IfSources
    \cup BinarySources \cup UnarySources \cup AssignSources

(***************************************************************************)
(* The driver.  `run` makes a parser over the source, parses, and on Ok    *)
(* hands the tree to the interpreter.  The interpreter outlives a run in   *)
(* the REPL, so a run starts from the globals earlier entries left.        *)
(***************************************************************************)

Zero == Number(0, 1)

\* Globals as earlier REPL entries (`let a = 0;`, `let b = 1;`) leave them.
InitialGlobals ==
    {[n \in {} |-> Nil],
     [n \in {<<"a">>} |-> Zero],
     [n \in {<<"a">>, <<"b">>} |-> IF n = <<"a">> THEN Zero ELSE Number(1, 1)]}

NotParsed == [p |-> ParserNew(<<>>), kind |-> "None", val |-> <<>>]

Init ==
    /\ source \in Sources
    /\ globals \in InitialGlobals
    /\ pc = "parse"
    /\ parsed = NotParsed
    /\ trace = <<>>
    /\ ScanIdle
    /\ EnvIdle
    /\ TokIdle
    /\ CurIdle

\* Parser::new(&source) and parser.parse() in run.
Parse ==
    /\ pc = "parse"
    /\ parsed' = parse(ParserNew(source))
    /\ pc' = CASE parsed'.kind = "Ok" -> "interpret"
               [] parsed'.kind = "Err" -> "done"
               [] parsed'.kind = "Panic" -> "panicked"
    /\ trace' = IF parsed'.kind = "Err"
                THEN Append(trace, <<"parsing error", parsed'.val[4]>>)
                ELSE trace
    /\ UNCHANGED <<source, globals>>
    /\ UNCHANGED <<scanvars, envvars, tokvars, curvars>>

\* The interpreter's call in run, on the tree parse returned.
Interpret ==
    /\ pc = "interpret"
    /\ ~HasIf(parsed.val)
    /\ \E st \in {interpret_stmt(parsed.val, [globals |-> globals, trace |-> trace,
                                              status |-> "running"])} :
           /\ st.status # "unmodelled"
           /\ globals' = st.globals
           /\ trace' = st.trace
           /\ pc' = IF st.status = "panicked" THEN "panicked" ELSE "done"
    /\ UNCHANGED <<source, parsed>>
    /\ UNCHANGED <<scanvars, envvars, tokvars, curvars>>

Next == Parse \/ Interpret

Spec == Init /\ [][Next]_vars

\* The driver before any source is given to it.
RunIdle ==
    /\ globals = EmptyMap
    /\ pc = "idle"
    /\ parsed = NotParsed
    /\ trace = <<>>

(***************************************************************************)
(* The scanner on its own: Scanner::new(source), then scan() again and     *)
(* again, as the scanner's tests do; the calls go on after Eof and after   *)
(* an error.                                                               *)
(***************************************************************************)

\* The scan calls of one behaviour are at most MaxScans.
MaxScans == 12

\* Numeric literals with what may stand before and after them.
NumberSources ==
    {lead \o int \o frac \o tail :
        lead \in {<<>>, <<" ">>, <<"-">>, <<"U+00E9">>},
        int \in {<<"0">>, <<"7">>, <<"1", "2">>, <<"2", "5", "6">>},
        frac \in {<<>>, <<".", "5">>, <<".", "3", "4">>},
        tail \in {<<>>, <<".">>, <<".", "x">>, <<" ">>, <<";">>, <<".", ".", "5">>,
                  <<".", "l", "o", "g", "2", "(", ")">>}}

\* Texts that are empty, blank, or end in white space, in an error or in a token.
EndSources ==
    {<<>>, <<" ">>, <<"\n">>, <<" ", "\t", "\r", "\n", "\f">>, <<"a">>, <<"a", " ">>,
     <<"a", "\n", "\n">>, <<"@">>, <<"@", " ">>, <<"\"", "s">>, <<"\"", "s", "\"", " ">>,
     <<"l", "e", "t", " ", "x", " ", "=", " ", "1", "0", ";">>,
     <<"f", "u", "n", "c", " ", "a", "d", "d", "(", "x", ",", " ", "y", ")", " ", "{",
       " ", "r", "e", "t", "u", "r", "n", " ", "x", " ", "+", " ", "y", ";", " ", "}">>}

\* The characters that begin the one- and two-character operators, alone and
\* with what may follow them.
PairSources ==
    {lead \o <<a>> \o tail :
        lead \in {<<>>, <<" ">>, <<"U+00E9", " ">>},
        a \in {"+", "-", "*", "/", "%", "=", "<", ">", "!"},
        tail \in {<<>>, <<"=">>, <<"*">>, <<" ", "=">>, <<"=", "=">>, <<"a">>,
                  <<"*", "=">>}}

\* String literals, closed and not, over several bodies.
StringSources ==
    {lead \o <<"\"">> \o body \o close :
        lead \in {<<>>, <<" ">>},
        body \in {<<>>, <<"s">>, <<" ", "s", " ">>, <<"\n">>, <<"@">>, <<"U+00E9">>,
                  <<"NUL">>, <<"s", "NUL", "t">>, <<"1", ";">>},
        close \in {<<>>, <<"\"">>, <<"\"", " ", "x">>, <<"\"", "\"">>, <<" ">>}}

\* Characters that begin no token, with what may stand around them.
UnexpectedSources ==
    {lead \o <<ch>> \o tail :
        lead \in {<<>>, <<" ">>, <<"a">>},
        ch \in {"@", "#", "!", "U+00E9", "?", ":"},
        tail \in {<<>>, <<"a">>, <<" ", "1">>, <<"@">>, <<"U+00E9">>, <<"+">>}}

\* Texts with the character '\0' in them.
NulSources ==
    {lead \o <<"NUL">> \o tail :
        lead \in {<<>>, <<" ">>, <<"a">>, <<"1">>, <<"a", " ">>},
        tail \in {<<>>, <<"a">>, <<" ">>, <<" ", "b", ";">>, <<"NUL">>}}

ScanSources ==
    NumberSources \cup EndSources \cup PairSources \cup StringSources
        \cup UnexpectedSources \cup NulSources \cup PrefixSources
        \cup ScanErrorSources \cup GroupSources \cup LetSources \cup IfSources
        \cup BinarySources \cup UnarySources \cup AssignSources

ScanInit ==
    /\ source \in ScanSources
    /\ scanner = CursorNew(source)
    /\ tokens = <<>>
    /\ RunIdle
    /\ EnvIdle
    /\ TokIdle
    /\ CurIdle

\* One call of Scanner::scan; the token or the error it returns is recorded.
Scan ==
    /\ Len(tokens) < MaxScans
    /\ \E r \in {scan(scanner)} :
           /\ scanner' = r.c
           /\ tokens' = Append(tokens, [ok |-> r.ok, kind |-> r.kind,
                                        start |-> r.start, end |-> r.end,
                                        msg |-> r.msg])
    /\ UNCHANGED <<runvars, envvars, tokvars, curvars>>

ScanNext == Scan

ScanSpec == ScanInit /\ [][ScanNext]_vars

(***************************************************************************)
(* The Environment on its own, under any calls of define, get, set, push   *)
(* and pop.  A panic ends the behaviour.                                   *)
(***************************************************************************)

EnvNames == {<<"x">>, <<"y">>}

EnvValues == {Number(1, 1), Number(2, 1)}

EnvInit ==
    /\ EnvIdle
    /\ source = <<>>
    /\ RunIdle
    /\ ScanIdle
    /\ TokIdle
    /\ CurIdle

\* No call has panicked.
EnvRunning == returned[1] # "Panic"

EnvDefine(name, value) ==
    /\ EnvRunning
    /\ env' = define(env, name, value)
    /\ returned' = Unit
    /\ UNCHANGED <<saved, pushes, pops>>
    /\ UNCHANGED <<runvars, scanvars, tokvars, curvars>>

EnvGet(name) ==
    /\ EnvRunning
    /\ returned' = get(env, name)
    /\ UNCHANGED <<env, saved, pushes, pops>>
    /\ UNCHANGED <<runvars, scanvars, tokvars, curvars>>

\* A set call; the frames pushed earlier are marked as no longer followed by
\* define calls only.
EnvSet(name, value) ==
    /\ EnvRunning
    /\ \E r \in {set(env, name, value)} :
           /\ env' = r.env
           /\ returned' = r.returned
    /\ saved' = [i \in DOMAIN saved |-> [saved[i] EXCEPT !.defines_only = FALSE]]
    /\ UNCHANGED <<pushes, pops>>
    /\ UNCHANGED <<runvars, scanvars, tokvars, curvars>>

EnvPush ==
    /\ EnvRunning
    /\ Depth(env) < MaxFrames
    /\ pushes < MaxPushes
    /\ env' = push(env)
    /\ returned' = Unit
    /\ saved' = Append(saved, [env |-> env, defines_only |-> TRUE])
    /\ pushes' = pushes + 1
    /\ UNCHANGED pops
    /\ UNCHANGED <<runvars, scanvars, tokvars, curvars>>

EnvPop ==
    /\ EnvRunning
    /\ \E r \in {pop(env)} :
           IF r.kind = "Panic"
           THEN /\ returned' = <<"Panic", r.msg>>
                /\ UNCHANGED <<env, saved, pops>>
           ELSE /\ env' = r.env
                /\ returned' = Unit
                /\ saved' = SubSeq(saved, 1, Len(saved) - 1)
                /\ pops' = pops + 1
    /\ UNCHANGED pushes
    /\ UNCHANGED <<runvars, scanvars, tokvars, curvars>>

EnvNext ==
    \/ \E name \in EnvNames, value \in EnvValues : EnvDefine(name, value)
    \/ \E name \in EnvNames : EnvGet(name)
    \/ \E name \in EnvNames, value \in EnvValues : EnvSet(name, value)
    \/ EnvPush
    \/ EnvPop

EnvSpec == EnvInit /\ [][EnvNext]_vars

(***************************************************************************)
(* The Parser's token operations on their own: Parser::new(source), then   *)
(* any calls of peek, advance, advance_if and expect.  A panic ends the    *)
(* behaviour.                                                              *)
(***************************************************************************)

\* The tokens consumed in one behaviour are at most MaxAdvances.
MaxAdvances == 9

TokSources == LetSources \cup ScanErrorSources \cup EndSources

\* The kinds asked for.
TokKinds == {"Identifier", "Number", "String", "Eof", "Semicolon", "Equal", "Let"}

TokInit ==
    /\ source \in TokSources
    /\ parser = ParserNew(source)
    /\ consumed = <<>>
    /\ result = NoCall
    /\ RunIdle
    /\ ScanIdle
    /\ EnvIdle
    /\ CurIdle

TokRunning == result.kind # "Panic"

\* The record of a call `op(arg)` that returned r.
Called(op, arg, r) == [op |-> op, arg |-> arg, kind |-> r.kind, val |-> r.val]

TokPeek ==
    /\ TokRunning
    /\ \E r \in {peek(parser)} :
           /\ parser' = r.p
           /\ result' = Called("peek", "", r)
    /\ UNCHANGED consumed
    /\ UNCHANGED <<runvars, scanvars, envvars, curvars>>

TokAdvance ==
    /\ TokRunning
    /\ Len(consumed) < MaxAdvances
    /\ \E r \in {advance(parser)} :
           /\ parser' = r.p
           /\ result' = Called("advance", "", r)
           /\ consumed' = IF r.kind = "Ok" THEN Append(consumed, r.val) ELSE consumed
    /\ UNCHANGED <<runvars, scanvars, envvars, curvars>>

\* advance_if(kind); the token its inner advance call returns is the one the
\* slot holds after its peek.
TokAdvanceIf(kind) ==
    /\ TokRunning
    /\ Len(consumed) < MaxAdvances
    /\ \E r \in {advance_if(parser, kind)}, k \in {peek(parser)} :
           /\ parser' = r.p
           /\ result' = Called("advance_if", kind, r)
           /\ consumed' = IF r.kind = "Ok" /\ r.val = TRUE
                          THEN Append(consumed, k.val) ELSE consumed
    /\ UNCHANGED <<runvars, scanvars, envvars, curvars>>

TokExpect(kind) ==
    /\ TokRunning
    /\ Len(consumed) < MaxAdvances
    /\ \E r \in {expect(parser, kind)}, k \in {peek(parser)} :
           /\ parser' = r.p
           /\ result' = Called("expect", kind, r)
           /\ consumed' = IF r.kind = "Ok" THEN Append(consumed, k.val) ELSE consumed
    /\ UNCHANGED <<runvars, scanvars, envvars, curvars>>

TokNext ==
    \/ TokPeek
    \/ TokAdvance
    \/ \E kind \in TokKinds : TokAdvanceIf(kind)
    \/ \E kind \in TokKinds : TokExpect(kind)

TokSpec == TokInit /\ [][TokNext]_vars

(***************************************************************************)
(* The Cursor on its own: Cursor::new(input), then any calls of advance    *)
(* and lookahead, as in the cursor's tests.                                *)
(***************************************************************************)

\* An input has at most MaxInput characters.
MaxInput == 3

\* lookahead is called with at most MaxLookahead.
MaxLookahead == 3

CursorInputs ==
    SeqsUpTo({"a", "U+00E9", "NUL"}, MaxInput) \cup {<<"o", "n", "e">>}

CursorInit ==
    /\ \E input \in CursorInputs : cursor = CursorNew(input)
    /\ got = NoChar
    /\ source = <<>>
    /\ RunIdle
    /\ ScanIdle
    /\ EnvIdle
    /\ TokIdle

CurAdvance ==
    /\ cursor' = CursorAdvance(cursor)
    /\ got' = [op |-> "advance", n |-> 0, val |-> AdvanceChar(cursor)]
    /\ UNCHANGED <<runvars, scanvars, envvars, tokvars>>

CurLookahead(n) ==
    /\ got' = [op |-> "lookahead", n |-> n, val |-> lookahead(cursor, n)]
    /\ UNCHANGED cursor
    /\ UNCHANGED <<runvars, scanvars, envvars, tokvars>>

CursorNext ==
    \/ CurAdvance
    \/ \E n \in 0..MaxLookahead : CurLookahead(n)

CursorSpec == CursorInit /\ [][CursorNext]_vars

(***************************************************************************)
(* Vocabulary of the properties                                            *)
(***************************************************************************)

RECURSIVE ScanAll(_)
\* The tokens scan yields from cursor c on, up to and including Eof or the
\* first ScanError.
ScanAll(c) ==
    LET Rest(r, t) == IF ~r.ok \/ r.kind = "Eof" THEN <<t>> ELSE <<t>> \o ScanAll(r.c)
        Scanned(r) == Rest(r, Token(r.start, r.end, r.kind))
    IN  Scanned(scan(c))

\* The tokens of the source text.
SourceTokens == ScanAll(CursorNew(source))

KindsOf(toks) == [i \in DOMAIN toks |-> toks[i].kind]

\* The token kinds that are an expression by themselves.
AtomKinds == {"Identifier", "Number", "True", "False", "Nil"}

\* The expression an atom token of the source denotes.
Atom(tok) ==
    LET text == Slice(source, tok.start, tok.end)
    IN  CASE tok.kind = "Identifier" -> <<"Identifier", text>>
          [] tok.kind = "Number" -> <<"Literal", ParseNumber(text)>>
          [] tok.kind = "True" -> <<"Literal", Bool(TRUE)>>
          [] tok.kind = "False" -> <<"Literal", Bool(FALSE)>>
          [] tok.kind = "Nil" -> <<"Literal", Nil>>

\* The levels of the binding-power table, loosest first.
Level(op) ==
    CASE op = "Or" -> 1
      [] op = "And" -> 2
      [] op \in {"Eq", "Ne"} -> 3
      [] op \in {"Lt", "Gt", "Le", "Ge"} -> 4
      [] op \in {"Add", "Sub"} -> 5
      [] op \in {"Mul", "Div", "Mod"} -> 6
      [] op = "Exp" -> 7
      [] OTHER -> 0

\* The source is `x op1 y op2 z ;` with atoms x, y, z and two infix operators
\* other than `=`.
IsTwoOperatorChain(t) ==
    /\ Len(t) = 7
    /\ t[1].kind \in AtomKinds /\ t[3].kind \in AtomKinds /\ t[5].kind \in AtomKinds
    /\ Level(OperatorOf(t[2].kind)) > 0 /\ Level(OperatorOf(t[4].kind)) > 0
    /\ t[6].kind = "Semicolon" /\ t[7].kind = "Eof"

\* (x op1 y) op2 z
GroupLeft(t) ==
    <<"Binary", OperatorOf(t[4].kind),
      <<"Binary", OperatorOf(t[2].kind), Atom(t[1]), Atom(t[3])>>, Atom(t[5])>>

\* x op1 (y op2 z)
GroupRight(t) ==
    <<"Binary", OperatorOf(t[2].kind), Atom(t[1]),
      <<"Binary", OperatorOf(t[4].kind), Atom(t[3]), Atom(t[5])>>>>

\* The state parse leaves: Interpret changes neither source nor parsed, so what
\* parse returned for a source is examined once, before the tree is run.
JustParsed == pc = "interpret" \/ (pc # "parse" /\ parsed.kind # "Ok")

Src_1_plus_2_times_3 ==
    Join(<<<<"1">>, <<"+">>, <<"2">>, <<"*">>, <<"3">>, <<";">>>>)

\* C2: of two infix operators of different levels the one of the higher level
\* groups tighter, whichever comes first: `x op1 y op2 z ;` parses to
\* x op1 (y op2 z) when op2 is of the higher level and to (x op1 y) op2 z when
\* op1 is; and running `1 + 2 * 3 ;` prints the value 7.
C2_Precedence ==
    /\ JustParsed =>
         LET t == SourceTokens
         IN  (IsTwoOperatorChain(t)
              /\ Level(OperatorOf(t[2].kind)) # Level(OperatorOf(t[4].kind)))
             => /\ parsed.kind = "Ok"
                /\ parsed.val =
                     <<"Expr", IF Level(OperatorOf(t[2].kind)) < Level(OperatorOf(t[4].kind))
                               THEN GroupRight(t) ELSE GroupLeft(t)>>
    /\ (pc = "done" /\ source = Src_1_plus_2_times_3)
         => trace = <<<<"value", Number(7, 1)>>>>

C2_Witness ==
    /\ pc = "done"
    /\ source = Src_1_plus_2_times_3
    /\ parsed.val =
         <<"Expr", <<"Binary", "Add", <<"Literal", Number(1, 1)>>,
                     <<"Binary", "Mul", <<"Literal", Number(2, 1)>>,
                                        <<"Literal", Number(3, 1)>>>>>>>>
    /\ trace = <<<<"value", Number(7, 1)>>>>

\* C3: `**` is right-associative and every other non-assignment infix operator
\* is left-associative: with op1 and op2 of the same level, `x op1 y op2 z ;`
\* parses to x op1 (y op2 z) when the level is that of `**` and to
\* (x op1 y) op2 z otherwise.
C3_Associativity ==
    JustParsed =>
      LET t == SourceTokens
      IN  (IsTwoOperatorChain(t)
           /\ Level(OperatorOf(t[2].kind)) = Level(OperatorOf(t[4].kind)))
          => /\ parsed.kind = "Ok"
             /\ parsed.val =
                  <<"Expr", IF OperatorOf(t[2].kind) = "Exp"
                            THEN GroupRight(t) ELSE GroupLeft(t)>>

C3_Witness ==
    /\ pc # "parse"
    /\ source = Join(<<<<"a">>, <<"*", "*">>, <<"b">>, <<"*", "*">>, <<"3">>, <<";">>>>)
    /\ parsed.kind = "Ok"
    /\ parsed.val =
         <<"Expr", <<"Binary", "Exp", <<"Identifier", <<"a">>>>,
                     <<"Binary", "Exp", <<"Identifier", <<"b">>>>,
                                        <<"Literal", Number(3, 1)>>>>>>>>

\* C1: parse returns Ok or Err for every source text and never panics.
C1_ParseNeverPanics == pc # "parse" => parsed.kind \in {"Ok", "Err"}

Three == Number(3, 1)

Src_a_eq_b_eq_3 == Join(<<<<"a">>, <<"=">>, <<"b">>, <<"=">>, <<"3">>, <<";">>>>)

\* The source is `x = y z w ;` shaped: seven tokens, an identifier, `=`, an
\* atom, any token, an atom, `;`, Eof.
IsAssignmentChain(t) ==
    /\ Len(t) = 7
    /\ t[1].kind = "Identifier" /\ t[2].kind = "Equal"
    /\ t[3].kind \in AtomKinds /\ t[5].kind \in AtomKinds
    /\ t[6].kind = "Semicolon" /\ t[7].kind = "Eof"

\* C4: assignment is right-associative and binds looser than every other
\* infix operator: `x = y = z ;` parses to Assignment(x, Assignment(y, z)) and
\* `x = y op z ;` to Assignment(x, Binary(op, y, z)); with a and b declared,
\* running `a = b = 3 ;` stores 3 in b, then 3 in a, and prints the value 3.
C4_Assignment ==
    [][/\ (pc = "parse" /\ pc' # "parse") =>
            LET t == SourceTokens
            IN  /\ (IsAssignmentChain(t) /\ t[3].kind = "Identifier"
                    /\ t[4].kind = "Equal")
                   => /\ parsed'.kind = "Ok"
                      /\ parsed'.val =
                           <<"Expr", <<"Assignment", Atom(t[1]),
                                       <<"Assignment", Atom(t[3]), Atom(t[5])>>>>>>
                /\ (IsAssignmentChain(t) /\ Level(OperatorOf(t[4].kind)) > 0)
                   => /\ parsed'.kind = "Ok"
                      /\ parsed'.val =
                           <<"Expr", <<"Assignment", Atom(t[1]),
                                       <<"Binary", OperatorOf(t[4].kind),
                                         Atom(t[3]), Atom(t[5])>>>>>>
       /\ (/\ pc = "interpret" /\ pc' # "interpret"
           /\ source = Src_a_eq_b_eq_3
           /\ {<<"a">>, <<"b">>} \subseteq DOMAIN globals)
          => /\ pc' = "done"
             /\ trace' = trace \o <<<<"insert", <<"b">>, Three>>,
                                    <<"insert", <<"a">>, Three>>,
                                    <<"value", Three>>>>
             /\ globals' = [globals EXCEPT ![<<"a">>] = Three, ![<<"b">>] = Three]
      ]_vars

C4_Witness ==
    /\ pc = "done"
    /\ source = Src_a_eq_b_eq_3
    /\ parsed.val = <<"Expr", <<"Assignment", <<"Identifier", <<"a">>>>,
                                <<"Assignment", <<"Identifier", <<"b">>>>,
                                                <<"Literal", Three>>>>>>>>
    /\ trace = <<<<"insert", <<"b">>, Three>>, <<"insert", <<"a">>, Three>>,
                 <<"value", Three>>>>
    /\ globals[<<"a">>] = Three /\ globals[<<"b">>] = Three

RECURSIVE TargetsAreIdentifiers(_)
\* Every Assignment node of the tree has an Identifier as its target.
TargetsAreIdentifiers(n) ==
    CASE n[1] = "Block" -> \A i \in 1..Len(n[2]) : TargetsAreIdentifiers(n[2][i])
      [] n[1] = "If" ->
           /\ TargetsAreIdentifiers(n[2]) /\ TargetsAreIdentifiers(n[3])
           /\ n[4][1] = "Some" => TargetsAreIdentifiers(n[4][2])
      [] n[1] = "Expr" -> TargetsAreIdentifiers(n[2])
      [] n[1] = "VarDecl" -> n[3][1] = "Some" => TargetsAreIdentifiers(n[3][2])
      [] n[1] = "Assignment" ->
           n[2][1] = "Identifier" /\ TargetsAreIdentifiers(n[3])
      [] n[1] = "Binary" -> TargetsAreIdentifiers(n[3]) /\ TargetsAreIdentifiers(n[4])
      [] n[1] = "Unary" -> TargetsAreIdentifiers(n[3])
      [] OTHER -> TRUE

\* The source is an assignment statement whose left-hand side is `x op y`,
\* `not x` or an atom that is no identifier.
HasInvalidTarget(t) ==
    \/ /\ Len(t) = 7
       /\ t[1].kind \in AtomKinds /\ Level(OperatorOf(t[2].kind)) > 0
       /\ t[3].kind \in AtomKinds /\ t[4].kind = "Equal"
       /\ t[5].kind \in AtomKinds /\ t[6].kind = "Semicolon" /\ t[7].kind = "Eof"
    \/ /\ Len(t) = 6
       /\ t[1].kind = "Not" /\ t[2].kind \in AtomKinds /\ t[3].kind = "Equal"
       /\ t[4].kind \in AtomKinds /\ t[5].kind = "Semicolon" /\ t[6].kind = "Eof"
    \/ /\ Len(t) = 5
       /\ t[1].kind \in AtomKinds \ {"Identifier"} /\ t[2].kind = "Equal"
       /\ t[3].kind \in AtomKinds /\ t[4].kind = "Semicolon" /\ t[5].kind = "Eof"

\* C5: an assignment whose left-hand side is not a single identifier is
\* answered with the ParseError "invalid assignment target"; no tree parse
\* returns holds an Assignment whose target is not an Identifier.
C5_InvalidTargetRejected ==
    pc # "parse" =>
      /\ parsed.kind = "Ok" => TargetsAreIdentifiers(parsed.val)
      /\ HasInvalidTarget(SourceTokens)
         => parsed.kind = "Err" /\ parsed.val[4] = "invalid assignment target"

RECURSIVE DeclaredNamesAreIdentifiers(_)
\* Every VarDecl node of the tree is named by the text of an Identifier token.
DeclaredNamesAreIdentifiers(n) ==
    CASE n[1] = "Block" ->
           \A i \in 1..Len(n[2]) : DeclaredNamesAreIdentifiers(n[2][i])
      [] n[1] = "If" ->
           /\ DeclaredNamesAreIdentifiers(n[3])
           /\ n[4][1] = "Some" => DeclaredNamesAreIdentifiers(n[4][2])
      [] n[1] = "VarDecl" ->
           /\ n[2] # <<>>
           /\ is_identifier_start(n[2][1])
           /\ \A i \in 1..Len(n[2]) : is_identifier_continue(n[2][i])
           /\ keyword_kind_from_str(n[2]) = "Identifier"
      [] OTHER -> TRUE

\* C6: when the token after `let` is not an Identifier, parse returns a
\* ParseError saying an identifier was expected; every VarDecl parse returns is
\* named by the text of an Identifier token.
C6_LetNeedsIdentifier ==
    pc # "parse" =>
      LET t == SourceTokens
      IN  /\ parsed.kind = "Ok" => DeclaredNamesAreIdentifiers(parsed.val)
          /\ (/\ Len(t) >= 2 /\ t[Len(t)].kind = "Eof"
              /\ t[1].kind = "Let" /\ t[2].kind # "Identifier")
             => parsed.kind = "Err" /\ parsed.val[4] = ExpectMessage("Identifier")

\* C7: parse returns Ok only once the whole token stream up to Eof has been
\* consumed: the token that follows the returned tree is Eof.
C7_WholeSourceParsed ==
    (pc # "parse" /\ parsed.kind = "Ok") =>
      LET k == peek(parsed.p) IN k.kind = "Ok" /\ k.val.kind = "Eof"

\* C8: an `if` takes any statement as consequent and as alternative:
\* `if a x ;` and `if a { } else if b { }` parse successfully.
C8_IfTakesAnyStatement ==
    pc # "parse" =>
      LET k == KindsOf(SourceTokens)
      IN  (\/ k = <<"If", "Identifier", "Identifier", "Semicolon", "Eof">>
           \/ k = <<"If", "Identifier", "LBrace", "RBrace", "Else",
                    "If", "Identifier", "LBrace", "RBrace", "Eof">>)
          => parsed.kind = "Ok"

\* The value of the atom expression x under globals g.
AtomValue(x, g) == IF x[1] = "Literal" THEN x[2] ELSE g[x[2]]

\* Truthy values are true and every number; false and nil are falsy.
Truthy(v) == v[1] = "Number" \/ v = Bool(TRUE)

Src_false_and_1_div_0 ==
    Join(<<L_false, <<"a", "n", "d">>, <<"(">>, <<"1">>, <<"/">>, <<"0">>, <<")">>,
           <<";">>>>)

Src_true_or_1_div_0 ==
    Join(<<L_true, <<"o", "r">>, <<"(">>, <<"1">>, <<"/">>, <<"0">>, <<")">>,
           <<";">>>>)

\* C9: running `x and y ;` or `x or y ;`, x a literal or a defined name:
\* when x decides the result (x falsy for and, x truthy for or) the value of x
\* is printed and y is not evaluated (no store, no error); otherwise the
\* outcome is that of evaluating y alone, its value uncoerced.  So
\* `false and (1 / 0)` prints false and `true or (1 / 0)` prints true.
C9_ShortCircuit ==
    [][(pc = "interpret" /\ pc' # "interpret") =>
         /\ (/\ parsed.val[1] = "Expr"
             /\ parsed.val[2][1] = "Binary"
             /\ parsed.val[2][2] \in {"And", "Or"}
             /\ \/ parsed.val[2][3][1] = "Literal"
                \/ /\ parsed.val[2][3][1] = "Identifier"
                   /\ parsed.val[2][3][2] \in DOMAIN globals)
            => LET op == parsed.val[2][2]
                   v == AtomValue(parsed.val[2][3], globals)
                   y == interpret_expr(parsed.val[2][4],
                            [globals |-> globals, trace |-> trace, status |-> "running"])
               IN  IF (op = "And") # Truthy(v)
                   THEN /\ globals' = globals
                        /\ trace' = Append(trace, <<"value", v>>)
                   ELSE /\ globals' = y.st.globals
                        /\ y.kind = "Ok" => trace' = Append(y.st.trace, <<"value", y.val>>)
                        /\ y.kind = "Err"
                           => trace' = Append(y.st.trace, <<"runtime error", y.val[2]>>)
         /\ source = Src_false_and_1_div_0 => trace' = <<<<"value", Bool(FALSE)>>>>
         /\ source = Src_true_or_1_div_0 => trace' = <<<<"value", Bool(TRUE)>>>>
      ]_vars

C9_Witness ==
    /\ pc = "done"
    /\ source = Src_false_and_1_div_0
    /\ parsed.val = <<"Expr", <<"Binary", "And", <<"Literal", Bool(FALSE)>>,
                                <<"Binary", "Div", <<"Literal", Number(1, 1)>>,
                                                   <<"Literal", Zero>>>>>>>>
    /\ trace = <<<<"value", Bool(FALSE)>>>>

\* C10: a `let x` executed inside a block is local to the block: after the
\* block an outer binding of x has the value it had before, and an x declared
\* only inside the block is no longer defined.
C10_BlockLetIsLocal ==
    [][(/\ pc = "interpret" /\ pc' = "done"
        /\ parsed.val[1] = "Block"
        /\ Len(parsed.val[2]) >= 1
        /\ parsed.val[2][1][1] = "VarDecl")
       => LET x == parsed.val[2][1][2]
          IN  IF x \in DOMAIN globals
              THEN x \in DOMAIN globals' /\ globals'[x] = globals[x]
              ELSE x \notin DOMAIN globals'
      ]_vars

\* C11: a runtime error ends the interpret call: nothing is executed after
\* the failing statement, so the error line is the last entry of the trace (no
\* line is printed and no binding is stored after it).
C11_ErrorStopsExecution ==
    \A i \in 1..Len(trace) : trace[i][1] = "runtime error" => i = Len(trace)

\* The interpreter state run hands to interpret_stmt.
Entry == [globals |-> globals, trace |-> trace, status |-> "running"]

\* The line printed for a runtime error.
ErrorLine(e) == <<"runtime error", e>>

\* x is a literal or a name bound in g.
IsBoundAtom(x, g) ==
    \/ x[1] = "Literal"
    \/ x[1] = "Identifier" /\ x[2] \in DOMAIN g

\* The tree is the statement `x op y ;` with x and y literals or bound names.
IsBinaryOfAtoms(n) ==
    /\ n[1] = "Expr"
    /\ n[2][1] = "Binary"
    /\ IsBoundAtom(n[2][3], globals)
    /\ IsBoundAtom(n[2][4], globals)

Src_c_eq_3 == Join(<<<<"c">>, <<"=">>, <<"3">>, <<";">>>>)

\* C12: reading a name that has no binding fails with UndefinedVariable;
\* assigning to a name that has no binding fails with UndefinedVariable once
\* the right-hand side has been evaluated, and creates no binding: the globals
\* are those the right-hand side left (the very same as before when it is a
\* literal or a name).
C12_UndefinedVariable ==
    [][(pc = "interpret" /\ pc' # "interpret" /\ parsed.val[1] = "Expr") =>
         /\ (/\ parsed.val[2][1] = "Identifier"
             /\ parsed.val[2][2] \notin DOMAIN globals)
            => /\ trace' = Append(trace, ErrorLine("UndefinedVariable"))
               /\ globals' = globals
         /\ (/\ parsed.val[2][1] = "Assignment"
             /\ parsed.val[2][2][1] = "Identifier"
             /\ parsed.val[2][2][2] \notin DOMAIN globals)
            => \E y \in {interpret_expr(parsed.val[2][3], Entry)} :
                 /\ parsed.val[2][2][2] \notin DOMAIN globals'
                 /\ globals' = y.st.globals
                 /\ IsBoundAtom(parsed.val[2][3], globals) => globals' = globals
                 /\ y.kind = "Ok"
                    => trace' = Append(y.st.trace, ErrorLine("UndefinedVariable"))
                 /\ y.kind = "Err" => trace' = Append(y.st.trace, ErrorLine(y.val[2]))
      ]_vars

C12_Witness ==
    /\ pc = "done"
    /\ source = Src_c_eq_3
    /\ parsed.val = <<"Expr", <<"Assignment", <<"Identifier", <<"c">>>>,
                                <<"Literal", Three>>>>>>
    /\ trace = <<ErrorLine("UndefinedVariable")>>
    /\ <<"a">> \in DOMAIN globals /\ <<"c">> \notin DOMAIN globals

\* The number v is the quotient of the numbers a and b (b # 0).
IsQuotient(v, a, b) ==
    /\ v[1] = "Number" /\ v[3] > 0
    /\ v[2] * a[3] * b[2] = v[3] * a[2] * b[3]

\* The number v is the remainder of a by b (b # 0) as f64's % computes it:
\* a - v is a whole multiple of b, |v| < |b|, and v has the sign of a.
IsRemainder(v, a, b) ==
    /\ v[1] = "Number" /\ v[3] > 0
    /\ ((a[2] * v[3] - v[2] * a[3]) * b[3]) % (a[3] * v[3] * Abs(b[2])) = 0
    /\ Abs(v[2]) * b[3] < Abs(b[2]) * v[3]
    /\ v[2] * a[2] >= 0

RECURSIVE HasDivOrMod(_)
\* Whether the tree holds a `/` or a `%`.
HasDivOrMod(n) ==
    CASE n[1] = "Block" -> \E i \in 1..Len(n[2]) : HasDivOrMod(n[2][i])
      [] n[1] = "Expr" -> HasDivOrMod(n[2])
      [] n[1] = "VarDecl" -> n[3][1] = "Some" /\ HasDivOrMod(n[3][2])
      [] n[1] = "Assignment" -> HasDivOrMod(n[2]) \/ HasDivOrMod(n[3])
      [] n[1] = "Binary" ->
           n[2] \in {"Div", "Mod"} \/ HasDivOrMod(n[3]) \/ HasDivOrMod(n[4])
      [] n[1] = "Unary" -> HasDivOrMod(n[3])
      [] OTHER -> FALSE

\* C13: `a / b` and `a % b` on two numbers fail with DivisionByZero and print
\* no value when b is zero, and print the quotient or the remainder otherwise;
\* a program without `/` and `%` never reports DivisionByZero.
C13_DivisionByZero ==
    [][(pc = "interpret" /\ pc' # "interpret") =>
         /\ (/\ IsBinaryOfAtoms(parsed.val)
             /\ parsed.val[2][2] \in {"Div", "Mod"}
             /\ AtomValue(parsed.val[2][3], globals)[1] = "Number"
             /\ AtomValue(parsed.val[2][4], globals)[1] = "Number")
            => \E a \in {AtomValue(parsed.val[2][3], globals)},
                  b \in {AtomValue(parsed.val[2][4], globals)} :
                 /\ globals' = globals
                 /\ Len(trace') = Len(trace) + 1
                 /\ b[2] = 0 => trace' = Append(trace, ErrorLine("DivisionByZero"))
                 /\ (b[2] # 0 /\ parsed.val[2][2] = "Div")
                    => /\ trace'[Len(trace')][1] = "value"
                       /\ IsQuotient(trace'[Len(trace')][2], a, b)
                 /\ (b[2] # 0 /\ parsed.val[2][2] = "Mod")
                    => /\ trace'[Len(trace')][1] = "value"
                       /\ IsRemainder(trace'[Len(trace')][2], a, b)
         /\ (\E i \in 1..Len(trace') : trace'[i] = ErrorLine("DivisionByZero"))
            => HasDivOrMod(parsed.val)
      ]_vars

C13_Witness ==
    /\ pc = "done"
    /\ parsed.val = <<"Expr", <<"Binary", "Mod", <<"Literal", Three>>,
                                <<"Literal", Zero>>>>>>
    /\ trace = <<ErrorLine("DivisionByZero")>>

\* C14: ordering and arithmetic on two evaluated operands fail with
\* InvalidOperand when one of them is a boolean or nil, also when the divisor
\* is zero (`true / 0`); `not` fails with InvalidOperand on a number or
\* nil, unary `-` on a boolean or nil.
C14_InvalidOperand ==
    [][(pc = "interpret" /\ pc' # "interpret" /\ parsed.val[1] = "Expr") =>
         /\ (/\ IsBinaryOfAtoms(parsed.val)
             /\ parsed.val[2][2] \in {"Lt", "Gt", "Le", "Ge", "Add", "Sub", "Mul",
                                      "Div", "Mod", "Exp"}
             /\ \/ AtomValue(parsed.val[2][3], globals)[1] \in {"Bool", "Nil"}
                \/ AtomValue(parsed.val[2][4], globals)[1] \in {"Bool", "Nil"})
            => /\ trace' = Append(trace, ErrorLine("InvalidOperand"))
               /\ globals' = globals
         /\ (/\ parsed.val[2][1] = "Unary"
             /\ IsBoundAtom(parsed.val[2][3], globals)
             /\ \/ /\ parsed.val[2][2] = "Not"
                   /\ AtomValue(parsed.val[2][3], globals)[1] # "Bool"
                \/ /\ parsed.val[2][2] = "Sub"
                   /\ AtomValue(parsed.val[2][3], globals)[1] # "Number")
            => /\ trace' = Append(trace, ErrorLine("InvalidOperand"))
               /\ globals' = globals
      ]_vars

C14_Witness ==
    /\ pc = "done"
    /\ parsed.val = <<"Expr", <<"Binary", "Div", <<"Literal", Bool(TRUE)>>,
                                <<"Literal", Zero>>>>>>
    /\ trace = <<ErrorLine("InvalidOperand")>>

\* Structural equality of two values: the same variant and the same payload.
SameValue(a, b) ==
    /\ a[1] = b[1]
    /\ a[1] = "Number" => a[2] * b[3] = b[2] * a[3]
    /\ a[1] = "Bool" => a[2] = b[2]

\* C15: `x == y` and `x != y` on two evaluated operands never fail: == prints
\* true exactly when both are of the same variant with the same payload (nil
\* equals nil, values of different variants are unequal), and != prints the
\* negation.
C15_Equality ==
    [][(/\ pc = "interpret" /\ pc' # "interpret"
        /\ IsBinaryOfAtoms(parsed.val)
        /\ parsed.val[2][2] \in {"Eq", "Ne"})
       => \E a \in {AtomValue(parsed.val[2][3], globals)},
             b \in {AtomValue(parsed.val[2][4], globals)} :
            /\ globals' = globals
            /\ pc' = "done"
            /\ trace' = Append(trace,
                   <<"value", Bool((parsed.val[2][2] = "Eq") = SameValue(a, b))>>)
      ]_vars

C15_Witness ==
    /\ pc = "done"
    /\ parsed.val = <<"Expr", <<"Binary", "Ne", <<"Literal", Nil>>,
                                <<"Literal", Zero>>>>>>
    /\ trace = <<<<"value", Bool(TRUE)>>>>

(***************************************************************************)
(* Environment: frames and bindings                                        *)
(***************************************************************************)

RECURSIVE Frames(_)
\* The maps of the frames of e, innermost first.
Frames(e) == IF e.parent[1] = "None" THEN <<e.map>> ELSE <<e.map>> \o Frames(e.parent[2])

\* The first frame of fs, innermost first, that binds name; 0 when none does.
FirstBinding(fs, name) ==
    IF \E i \in DOMAIN fs : name \in DOMAIN fs[i]
    THEN CHOOSE i \in DOMAIN fs :
             /\ name \in DOMAIN fs[i]
             /\ \A j \in 1..(i - 1) : name \notin DOMAIN fs[j]
    ELSE 0

\* The Environment saved by the push that the next pop matches, and whether
\* only define and get calls came after that push.
LastPushed == saved[Len(saved)]

\* C16: define(name, v) changes the innermost frame only: afterwards get(name)
\* returns v, every other binding of the innermost frame and every frame
\* outside it are as before; and the pop matching a push after which names were
\* only defined makes get return for every name what it returned before the
\* push, the outer binding or not-found.
C16_DefineInnermost ==
    [][ /\ \A name \in EnvNames, v \in EnvValues :
               EnvDefine(name, v) =>
                   /\ get(env', name) = Some(v)
                   /\ env'.parent = env.parent
                   /\ DOMAIN env'.map = DOMAIN env.map \cup {name}
                   /\ \A m \in DOMAIN env.map \ {name} : env'.map[m] = env.map[m]
        /\ (EnvPop /\ env.parent[1] = "Some" /\ LastPushed.defines_only) =>
               \A name \in EnvNames : get(env', name) = get(LastPushed.env, name)
      ]_vars

\* C16 witness: an inner frame in which x was defined over a different outer
\* binding of x, with no set since the push.
C16_Witness ==
    /\ env.parent[1] = "Some"
    /\ <<"x">> \in DOMAIN env.map
    /\ <<"x">> \in DOMAIN env.parent[2].map
    /\ env.map[<<"x">>] # env.parent[2].map[<<"x">>]
    /\ <<"y">> \notin DOMAIN env.map
    /\ <<"y">> \notin DOMAIN env.parent[2].map
    /\ LastPushed.defines_only
    /\ returned = Unit

\* C17: set(name, v) overwrites the binding of name in the first frame, from
\* the innermost outwards, that has one, and returns the value that binding
\* had; all other bindings and frames stay as they were.  When no frame binds
\* name it returns not-found and changes nothing.
C17_SetFirstBinding ==
    [][ \A name \in EnvNames, v \in EnvValues :
            EnvSet(name, v) =>
                LET Written(fs, i) ==
                        IF i = 0
                        THEN /\ returned' = None
                             /\ env' = env
                        ELSE /\ returned' = Some(fs[i][name])
                             /\ Frames(env') = [fs EXCEPT ![i][name] = v]
                    First(fs) == Written(fs, FirstBinding(fs, name))
                IN  First(Frames(env))
      ]_vars

\* C17 witness: after a set made since the push, x is bound in both frames to
\* different values and the set returned a previous value.
C17_Witness ==
    /\ env.parent[1] = "Some"
    /\ ~LastPushed.defines_only
    /\ <<"x">> \in DOMAIN env.map
    /\ <<"x">> \in DOMAIN env.parent[2].map
    /\ env.map[<<"x">>] # env.parent[2].map[<<"x">>]
    /\ returned[1] = "Some"

\* C18: push puts a new empty frame innermost whose parent is the former
\* chain, so get returns for every name what it returned before; push, any
\* defines, then pop leave the Environment as it was before the push; the
\* frames are 1 + pushes - pops; and pop on the root frame panics.
C18_PushPop ==
    /\ [](Depth(env) = 1 + pushes - pops)
    /\ [][ /\ EnvPush =>
                  /\ env'.map = EmptyMap
                  /\ env'.parent = Some(env)
                  /\ \A name \in EnvNames : get(env', name) = get(env, name)
           /\ (EnvPop /\ env.parent[1] = "Some") =>
                  /\ returned' = Unit
                  /\ LastPushed.defines_only => env' = LastPushed.env
           /\ (EnvPop /\ env.parent[1] = "None") =>
                  /\ returned' = <<"Panic", "pop called on root environment">>
                  /\ env' = env
         ]_vars

\* C18 witness: after pushes and as many pops, with a binding in the root
\* frame, one more pop has panicked.
C18_Witness ==
    /\ returned[1] = "Panic"
    /\ pushes >= 1
    /\ pops = pushes
    /\ env.parent[1] = "None"
    /\ DOMAIN env.map # {}

(***************************************************************************)
(* Scanner: end of input and numbers                                       *)
(***************************************************************************)

\* The token or error the last scan call returned.
LastToken == tokens[Len(tokens)]

\* The offset at which the run of characters of `chars` that starts at offset i
\* of s ends.
RunEnd(s, i, chars) ==
    CHOOSE j \in i..Len(s) :
        /\ \A k \in (i + 1)..j : s[k] \in chars
        /\ j = Len(s) \/ s[j + 1] \notin chars

WhitespaceChars == {" ", "\t", "\n", "\f", "\r"}

\* The character of s after its first i characters, "" past the end.
CharAt(s, i) == IF i < Len(s) THEN s[i + 1] ELSE ""

\* The byte offset at which the first i characters of s end.
Offset(s, i) == BytesUpTo(s, i)

\* C19: once nothing or only white space is left of the source, this and
\* every further scan call returns Ok with an Eof token whose span starts and
\* ends at the length of the source, and leaves the scanner at the end.
C19_EofForever ==
    [][ (Scan /\ RunEnd(source, scanner.pos, WhitespaceChars) = Len(source)) =>
            LET IsEof(t) ==
                    /\ t.ok
                    /\ t.kind = "Eof"
                    /\ t.start = StrLen(source)
                    /\ t.end = StrLen(source)
            IN  /\ IsEof(tokens'[Len(tokens')])
                /\ scanner'.pos = Len(source)
      ]_vars

\* C19 witness: for the source `a` followed by a space, the second and the
\* third scan calls have both returned Eof at offset 2.
C19_Witness ==
    /\ source = <<"a", " ">>
    /\ Len(tokens) = 3
    /\ tokens[1].kind = "Identifier"
    /\ tokens[2].kind = "Eof" /\ tokens[2].start = 2 /\ tokens[2].end = 2
    /\ tokens[3].kind = "Eof" /\ tokens[3].start = 2 /\ tokens[3].end = 2

\* The shape [kind, start, end] of the tokens scanned so far.
TokenShapes == [i \in DOMAIN tokens |-> <<tokens[i].ok, tokens[i].kind,
                                         tokens[i].start, tokens[i].end>>]

Src_12_34 == <<"1", "2", ".", "3", "4">>

Src_256_log2 == <<"2", "5", "6", ".", "l", "o", "g", "2", "(", ")">>

\* C20: a scan that starts at a digit returns one Number token that spans the
\* digits, and the period and the digits after it when a digit follows the
\* period; a period that follows a Number token is scanned as a Period token
\* of its own.  `12.34` is Number [0,5) and `256.log2()` is Number [0,3),
\* Period [3,4), Identifier [4,8), LParen [8,9), RParen [9,10).
C20_NumberToken ==
    /\ []((source = Src_12_34 /\ Len(tokens) >= 1) =>
              TokenShapes[1] = <<TRUE, "Number", 0, 5>>)
    /\ []((source = Src_256_log2 /\ Len(tokens) >= 5) =>
              SubSeq(TokenShapes, 1, 5) =
                  << <<TRUE, "Number", 0, 3>>, <<TRUE, "Period", 3, 4>>,
                     <<TRUE, "Identifier", 4, 8>>, <<TRUE, "LParen", 8, 9>>,
                     <<TRUE, "RParen", 9, 10>> >>)
    /\ [][ Scan =>
             LET Fraction(e) ==
                     IF CharAt(source, e) = "." /\ CharAt(source, e + 1) \in Digits
                     THEN RunEnd(source, e + 1, Digits)
                     ELSE e
                 Literal(b) ==
                     CharAt(source, b) \in Digits =>
                         tokens'[Len(tokens')] =
                             [ok |-> TRUE, kind |-> "Number",
                              start |-> Offset(source, b),
                              end |-> Offset(source, Fraction(RunEnd(source, b, Digits))),
                              msg |-> ""]
                 AfterNumber(t) ==
                     (t.ok /\ t.kind = "Number"
                        /\ CharAt(source, CharsBefore(source, t.end)) = ".") =>
                         tokens'[Len(tokens')] =
                             [ok |-> TRUE, kind |-> "Period", start |-> t.end,
                              end |-> t.end + 1, msg |-> ""]
             IN  /\ Literal(RunEnd(source, scanner.pos, WhitespaceChars))
                 /\ tokens # <<>> => AfterNumber(LastToken)
         ]_vars

\* C20 witness: `256.log2()` scanned to its end.
C20_Witness ==
    /\ source = Src_256_log2
    /\ Len(tokens) = 6
    /\ TokenShapes[1] = <<TRUE, "Number", 0, 3>>
    /\ TokenShapes[2] = <<TRUE, "Period", 3, 4>>
    /\ TokenShapes[6] = <<TRUE, "Eof", 10, 10>>

(***************************************************************************)
(* Scanner: operators, strings, errors, spans                              *)
(***************************************************************************)

\* The kind of each two-character operator.
PairKinds ==
    [pair \in {<<"=", "=">>, <<"!", "=">>, <<"<", "=">>, <<">", "=">>, <<"*", "*">>,
               <<"+", "=">>, <<"-", "=">>, <<"*", "=">>, <<"/", "=">>, <<"%", "=">>} |->
        CASE pair = <<"=", "=">> -> "EqualEqual"
          [] pair = <<"!", "=">> -> "BangEqual"
          [] pair = <<"<", "=">> -> "LessEqual"
          [] pair = <<">", "=">> -> "GreaterEqual"
          [] pair = <<"*", "*">> -> "StarStar"
          [] pair = <<"+", "=">> -> "PlusEqual"
          [] pair = <<"-", "=">> -> "MinusEqual"
          [] pair = <<"*", "=">> -> "StarEqual"
          [] pair = <<"/", "=">> -> "SlashEqual"
          [] pair = <<"%", "=">> -> "PercentEqual"]

\* The kind of each operator character that is a token on its own.
LoneKinds ==
    [ch \in {"+", "-", "*", "/", "%", "=", "<", ">"} |->
        CASE ch = "+" -> "Plus"
          [] ch = "-" -> "Minus"
          [] ch = "*" -> "Star"
          [] ch = "/" -> "Slash"
          [] ch = "%" -> "Percent"
          [] ch = "=" -> "Equal"
          [] ch = "<" -> "Less"
          [] ch = ">" -> "Greater"]

\* The token the scan call of this step returned.
Scanned == tokens'[Len(tokens')]

\* The number of characters before the first one the next scan call does not
\* skip as white space.
TokenStart == RunEnd(source, scanner.pos, WhitespaceChars)

\* C21: a scan that starts at one of the ten pairs == != <= >= ** += -= *= /=
\* %= returns one token of the pair's kind spanning both characters, and one
\* that starts at a + - * / % = < > not followed by the second character of a
\* pair returns the one-character kind.
C21_OperatorPairs ==
    [][ Scan =>
          LET At(b) ==
                  IF <<CharAt(source, b), CharAt(source, b + 1)>> \in DOMAIN PairKinds
                  THEN Scanned =
                           [ok |-> TRUE,
                            kind |-> PairKinds[<<CharAt(source, b), CharAt(source, b + 1)>>],
                            start |-> Offset(source, b),
                            end |-> Offset(source, b) + 2, msg |-> ""]
                  ELSE CharAt(source, b) \in DOMAIN LoneKinds =>
                           Scanned =
                               [ok |-> TRUE, kind |-> LoneKinds[CharAt(source, b)],
                                start |-> Offset(source, b),
                                end |-> Offset(source, b) + 1, msg |-> ""]
          IN  At(TokenStart)
      ]_vars

\* The characters of s after its first i that are a `"`, as numbers of
\* characters before them.
QuotesAfter(s, i) == {q \in (i + 1)..(Len(s) - 1) : s[q + 1] = "\""}

\* The least element of a nonempty set of numbers.
Min(S) == CHOOSE x \in S : \A y \in S : x <= y

\* C22: a scan that starts at a `"` returns, whenever a `"` occurs later in
\* the source, one String token that spans from the opening quote through the
\* next `"`, whatever lies between; only when no `"` follows does it return
\* the ScanError "expected closing quotes".
C22_StringLiteral ==
    [][ Scan =>
          LET Closed(b, q) ==
                  /\ Scanned.ok
                  /\ Scanned.kind = "String"
                  /\ Scanned.start = Offset(source, b)
                  /\ Scanned.end = Offset(source, q + 1)
              Open ==
                  /\ ~Scanned.ok
                  /\ Scanned.msg = "expected closing quotes"
              At(b) ==
                  CharAt(source, b) = "\"" =>
                      IF QuotesAfter(source, b) # {}
                      THEN Closed(b, Min(QuotesAfter(source, b)))
                      ELSE Open
          IN  At(TokenStart)
      ]_vars

\* The characters at which some arm of scan other than the last begins a token.
TokenStarters ==
    Lower \cup Upper \cup Digits \cup
    {"_", "\"", "{", "}", "(", ")", "[", "]", ";", ",", ".", "+", "-", "*", "/", "%",
     "=", "<", ">", "NUL"}

\* C23: a scan that starts at a character that begins no token (or at a `!`
\* not followed by `=`) returns the ScanError "unexpected character '<c>'"
\* whose span is that one character, and leaves the scanner just after it.
C23_UnexpectedCharacter ==
    [][ Scan =>
          LET At(b) ==
                  (/\ b < Len(source)
                   /\ CharAt(source, b) \notin TokenStarters
                   /\ CharAt(source, b) = "!" => CharAt(source, b + 1) # "=") =>
                      /\ Scanned =
                             [ok |-> FALSE, kind |-> "ScanError",
                              start |-> Offset(source, b),
                              end |-> Offset(source, b + 1),
                              msg |-> "unexpected character '" \o CharAt(source, b) \o "'"]
                      /\ scanner'.pos = b + 1
                      /\ scanner'.start = Offset(source, b + 1)
          IN  At(TokenStart)
      ]_vars

\* C23 witness: `@a` scanned: the error for `@` over [0,1), then the
\* identifier from offset 1.
C23_Witness ==
    /\ source = <<"@", "a">>
    /\ Len(tokens) = 2
    /\ tokens[1] = [ok |-> FALSE, kind |-> "ScanError", start |-> 0, end |-> 1,
                    msg |-> "unexpected character '@'"]
    /\ tokens[2].kind = "Identifier"
    /\ tokens[2].start = 1

\* The byte offsets of source at which a character starts or the source ends.
Boundaries == {Offset(source, i) : i \in 0..Len(source)}

\* C24: the span of every token and every error a scan call returns has
\* 0 <= start <= end <= len(source) on character boundaries; it starts where
\* the white space after the previous span ends and ends where the scanner
\* stopped reading, so it is the text read without the white space before it;
\* and it starts at or after the end of the span returned before.
C24_Spans ==
    [][ Scan =>
          LET Span(t) ==
                  /\ 0 <= t.start
                  /\ t.start <= t.end
                  /\ t.end <= StrLen(source)
                  /\ t.start \in Boundaries
                  /\ t.end \in Boundaries
                  /\ t.start = Offset(source, TokenStart)
                  /\ t.end = Offset(source, scanner'.pos)
                  /\ t.start < t.end =>
                         Head(Slice(source, t.start, t.end)) \notin WhitespaceChars
                  /\ tokens # <<>> => t.start >= LastToken.end
          IN  Span(Scanned)
      ]_vars

\* C24 witness: `let x = 10;` scanned to its end with the spans of its test.
C24_Witness ==
    /\ source = <<"l", "e", "t", " ", "x", " ", "=", " ", "1", "0", ";">>
    /\ TokenShapes = << <<TRUE, "Let", 0, 3>>, <<TRUE, "Identifier", 4, 5>>,
                        <<TRUE, "Equal", 6, 7>>, <<TRUE, "Number", 8, 10>>,
                        <<TRUE, "Semicolon", 10, 11>>, <<TRUE, "Eof", 11, 11>> >>

\* C25: a scan call returns an Eof token only when every character of the
\* source has been read, with the empty span at the end of the source; no
\* character inside the source makes it return Eof; and after an Eof no scan
\* call returns anything but Eof.
C25_EofOnlyAtEnd ==
    [][ Scan =>
          /\ Scanned.kind = "Eof" =>
                 /\ Scanned.ok
                 /\ Scanned.start = StrLen(source)
                 /\ Scanned.end = StrLen(source)
                 /\ TokenStart = Len(source)
          /\ (tokens # <<>> /\ LastToken.kind = "Eof") => Scanned.kind = "Eof"
      ]_vars

\* C26: a scan call made while characters remain reads at least one of them,
\* whether it returns a token or an error, and no scan call moves the read
\* position back; so among the first n + 1 scan calls on a source of n
\* characters one returns Eof.
C26_Progress ==
    /\ [](Len(tokens) >= Len(source) + 1 =>
              \E i \in 1..(Len(source) + 1) : tokens[i].ok /\ tokens[i].kind = "Eof")
    /\ [][ Scan =>
             /\ scanner'.pos >= scanner.pos
             /\ scanner.pos < Len(source) => scanner'.pos > scanner.pos
             /\ bytes_remaining(scanner') <= bytes_remaining(scanner)
         ]_vars

\* C26 witness: `@@` scanned: two errors, then Eof at the third call.
C26_Witness ==
    /\ source = <<"@", "@">>
    /\ Len(tokens) = 3
    /\ ~tokens[1].ok
    /\ ~tokens[2].ok
    /\ tokens[3].ok /\ tokens[3].kind = "Eof"
    /\ scanner.pos = 2

(***************************************************************************)
(* Parser: the lookahead slot and expect                                   *)
(***************************************************************************)

RECURSIVE ScannerTokens(_, _)
\* What the first k scan calls on the scanner c return, as tokens; an error
\* is a token of kind "ScanError".
ScannerTokens(c, k) ==
    IF k = 0 THEN <<>>
    ELSE LET Rest(r) == <<Token(r.start, r.end, r.kind)>> \o ScannerTokens(r.c, k - 1)
         IN  Rest(scan(c))

\* The token the scanner returns after the tokens consumed so far.
NextScanned ==
    ScannerTokens(CursorNew(source), Len(consumed) + 1)[Len(consumed) + 1]

Src_let_a_eq_3 == <<"l", "e", "t", " ", "a", " ", "=", " ", "3", " ", ";">>

\* C27: the tokens advance returned so far are the tokens the scanner returns,
\* in order, and a token in the slot is the scanner's next one; peek puts that
\* token into the slot, consumes nothing, and returns it again when repeated;
\* advance directly after peek returns the token peek returned and leaves the
\* slot empty.
C27_SingleSlotLookahead ==
    /\ [](consumed = ScannerTokens(CursorNew(source), Len(consumed)))
    /\ [](parser.peeked.kind # "None" => parser.peeked = NextScanned)
    /\ [][ /\ (TokPeek /\ result'.kind = "Ok") =>
                  /\ consumed' = consumed
                  /\ result'.val = NextScanned
                  /\ parser'.peeked = result'.val
                  /\ peek(parser') = Ok(parser', result'.val)
           /\ (TokAdvance /\ result.op = "peek" /\ result.kind = "Ok") =>
                  /\ result'.kind = "Ok"
                  /\ result'.val = result.val
                  /\ parser'.peeked = NoToken
                  /\ consumed' = Append(consumed, result.val)
         ]_vars

\* C27 witness: of `let a = 3 ;`, `let` and `a` were consumed, `=` was peeked
\* and then returned by advance.
C27_Witness ==
    /\ source = Src_let_a_eq_3
    /\ consumed = <<Token(0, 3, "Let"), Token(4, 5, "Identifier"), Token(6, 7, "Equal")>>
    /\ result = [op |-> "advance", arg |-> "", kind |-> "Ok", val |-> Token(6, 7, "Equal")]
    /\ parser.peeked = NoToken

\* C28: expect(kind) on a next token of that kind consumes that one token and
\* returns Ok; on a next token of another kind it consumes nothing, leaves the
\* token in the slot and returns a ParseError with the span of that token and
\* the message "expected " followed by the kind's text, in quotes unless the
\* kind is Identifier, String, Number or Eof.
C28_Expect ==
    [][ \A kind \in TokKinds :
          (TokExpect(kind) /\ NextScanned.kind # "ScanError") =>
              LET Quoted == kind \notin {"Identifier", "String", "Number", "Eof"}
                  Message ==
                      IF Quoted THEN "expected '" \o Display(kind) \o "'"
                      ELSE "expected " \o Display(kind)
                  On(tok) ==
                      IF tok.kind = kind
                      THEN /\ result'.kind = "Ok"
                           /\ consumed' = Append(consumed, tok)
                           /\ parser'.peeked = NoToken
                      ELSE /\ result'.kind = "Err"
                           /\ result'.val = <<"ParseError", tok.start, tok.end, Message>>
                           /\ consumed' = consumed
                           /\ parser'.peeked = tok
              IN  On(NextScanned)
      ]_vars

\* C28 witness: of `let a = 3 ;`, `let` was consumed and expect(Number) has
\* failed at `a`, which stays in the slot.
C28_Witness ==
    /\ source = Src_let_a_eq_3
    /\ consumed = <<Token(0, 3, "Let")>>
    /\ result = [op |-> "expect", arg |-> "Number", kind |-> "Err",
                 val |-> <<"ParseError", 4, 5, "expected <number>">>]
    /\ parser.peeked = Token(4, 5, "Identifier")

(***************************************************************************)
(* Parser: prefix operators                                                *)
(***************************************************************************)

\* The source is `pre x op y ;` with a prefix operator, atoms x and y and an
\* infix operator other than `=`.
IsPrefixedBinary(t) ==
    /\ Len(t) = 6
    /\ t[1].kind \in {"Minus", "Not"}
    /\ t[2].kind \in AtomKinds /\ t[4].kind \in AtomKinds
    /\ Level(OperatorOf(t[3].kind)) > 0
    /\ t[5].kind = "Semicolon" /\ t[6].kind = "Eof"

\* (pre x) op y
PrefixInside(t) ==
    <<"Binary", OperatorOf(t[3].kind),
      <<"Unary", OperatorOf(t[1].kind), Atom(t[2])>>, Atom(t[4])>>

\* pre (x op y)
PrefixOutside(t) ==
    <<"Unary", OperatorOf(t[1].kind),
      <<"Binary", OperatorOf(t[3].kind), Atom(t[2]), Atom(t[4])>>>>

InfixOperators ==
    {"Assign", "Or", "And", "Eq", "Ne", "Lt", "Gt", "Le", "Ge", "Add", "Sub", "Mul",
     "Div", "Mod", "Exp"}

\* C29: the right binding power of prefix `-` is above the left binding power
\* of every infix operator, and that of `not` is above those of `and`, `or`
\* and `=` and below those of the comparison and arithmetic operators; so
\* `- x op y ;` parses to (-x) op y for every infix operator, and
\* `not x op y ;` to (not x) op y for `and` and `or` and to not (x op y) for
\* the comparison and arithmetic operators.
C29_PrefixBindingPower ==
    /\ \A op \in InfixOperators :
           /\ prefix_binding_power("Sub").r > infix_binding_power(op).l
           /\ prefix_binding_power("Not").r > infix_binding_power(op).l
                  <=> op \in {"Assign", "Or", "And"}
    /\ JustParsed =>
         LET Grouped(t) ==
                 IsPrefixedBinary(t) =>
                     /\ parsed.kind = "Ok"
                     /\ parsed.val =
                          <<"Expr", IF t[1].kind = "Minus" \/ t[3].kind \in {"And", "Or"}
                                    THEN PrefixInside(t) ELSE PrefixOutside(t)>>
         IN  Grouped(SourceTokens)

\* C29 witness: `- a ** b ;` parsed to (-a) ** b.
C29_Witness ==
    /\ pc # "parse"
    /\ source = Join(<<<<"-">>, <<"a">>, <<"*", "*">>, <<"b">>, <<";">>>>)
    /\ parsed.kind = "Ok"
    /\ parsed.val =
         <<"Expr", <<"Binary", "Exp", <<"Unary", "Sub", <<"Identifier", <<"a">>>>>>,
                     <<"Identifier", <<"b">>>>>>>>

(***************************************************************************)
(* Cursor                                                                  *)
(***************************************************************************)

\* The characters of the cursor's input not yet read.
Unread == SubSeq(cursor.input, cursor.pos + 1, Len(cursor.input))

\* C30: lookahead(n) leaves the cursor and bytes_remaining as they are and
\* returns the character n positions ahead, or '\0' when fewer than n + 1
\* characters remain; advance returns the next character and lowers
\* bytes_remaining by the length of that character, and on exhausted input
\* returns '\0' with bytes_remaining staying 0.
C30_CursorCalls ==
    [][ /\ \A n \in 0..MaxLookahead :
              CurLookahead(n) =>
                  /\ cursor' = cursor
                  /\ bytes_remaining(cursor') = bytes_remaining(cursor)
                  /\ got'.val = IF Len(Unread) >= n + 1 THEN Unread[n + 1] ELSE "NUL"
        /\ CurAdvance =>
              IF Unread # <<>>
              THEN /\ got'.val = Head(Unread)
                   /\ bytes_remaining(cursor') =
                          bytes_remaining(cursor) - len_utf8(Head(Unread))
                   /\ cursor'.pos = cursor.pos + 1
              ELSE /\ got'.val = "NUL"
                   /\ bytes_remaining(cursor) = 0
                   /\ bytes_remaining(cursor') = 0
      ]_vars

\* C30 witness: a two-byte character was read by advance and one character
\* of one byte remains.
C30_Witness ==
    /\ cursor.input = <<"a", "U+00E9", "a">>
    /\ cursor.pos = 2
    /\ got = [op |-> "advance", n |-> 0, val |-> "U+00E9"]
    /\ bytes_remaining(cursor) = 1


=============================================================================
